---- MODULE Spec2Model ----
(***************************************************************************)
(* Rate limiting of stufio-modules-activity.                               *)
(*                                                                         *)
(* Two request pipelines exist in the repository:                          *)
(*   - src/middleware/rate_limiter.py (the earlier layout), whose dispatch *)
(*     calls CRUDRateLimit.check_and_update_{ip,user,endpoint}_limit, the  *)
(*     count-then-insert checks over the ClickHouse table rate_limits;     *)
(*   - src/stufio/modules/activity/middleware/rate_limiter.py, the one     *)
(*     module.py registers, whose dispatch reads the persistent user       *)
(*     blocks, the in-process RATE_LIMIT_CACHE and the per-minute views.   *)
(* Time is a counter of clock ticks; durations of the settings are scaled  *)
(* to a few ticks.  A timestamp that Python leaves as None is NoTime.      *)
(***************************************************************************)
EXTENDS Bags, FiniteSets, Integers, Sequences, TLC

\* ---------------------------------------------------------------- bounds
MaxTime == 3
MaxViolations == 1
MaxIpViolations == 2
MaxLegacyTime == 1

IPs == {"a"}
Users == {"u1"}
NoUser == ""
API_V1_STR == "/api/v1"
LimitedPath == API_V1_STR \o "/x"
Paths == {LimitedPath, "/health"}
ExemptPaths == {"/metrics", "/health", API_V1_STR \o "/docs", API_V1_STR \o "/openapi.json"}

\* Optional[datetime] = None
NoTime == -1
\* settings (config.py), scaled from 100/60 and 300/60
RATE_LIMIT_IP_MAX_REQUESTS == 2
RATE_LIMIT_IP_WINDOW_SECONDS == 2
RATE_LIMIT_USER_MAX_REQUESTS == 2
RATE_LIMIT_USER_WINDOW_SECONDS == 2

\* limits an administrator gives an override: the exact path's and the
\* wildcard's differ from each other and from the defaults
OverrideLimits(path) ==
    IF path = "*" THEN [max_requests |-> 3, window_seconds |-> 3]
    ELSE [max_requests |-> 1, window_seconds |-> 1]
OverridePaths == {LimitedPath, "*"}
OverrideExpiries == {NoTime, 1}
BlacklistExpiries == {NoTime, 1}

\* the registered middleware: its literals, scaled to ticks of 30 seconds
\* (minutes of a block are scaled further)
CACHE_TTL_SECONDS == 1
ENDPOINT_CACHE_TTL == 4
MinuteSeconds == 2
IP_BLOCK_MINUTES == 2
USER_BLOCK_MINUTES == 1
MaxMiddlewareTime == 3
RATE_LIMIT_DECISION_TTL == 1
IP_BLACKLIST_TTL == 2
MaxActivity == 2
MaxTasks == 1
MaxUpdates == 3
MaxSuspicious == 2
MaxLogs == 1
MaxActivityTime == 2

VARIABLES
    now,                  \* the clock (datetime.utcnow(), time.time())
    rate_limits,          \* ClickHouse table rate_limits: bag of rows
    violations,           \* ClickHouse table rate_limit_violations: bag of rows
    ip_blacklist,         \* Mongo collection ip_blacklist, read by the checks
    user_ip_blacklist,    \* Mongo collection user_ip_blacklist (model IPBlacklist)
    rate_limit_overrides, \* Mongo collection rate_limit_overrides: set of documents
    rate_limit_configs,   \* Mongo collection rate_limit_configs: set of documents
    user_rate_limits,     \* Mongo collection user_rate_limits: the persistent blocks
    user_activity,        \* ClickHouse table user_activity, which feeds the views
    RATE_LIMIT_CACHE,     \* cache key -> [is_allowed, expire]
    ENDPOINT_CONFIG_CACHE, \* endpoint -> [config, expire]
    IP_BLACKLIST_CACHE,   \* ip -> [timestamp, reason]
    tasks,                \* coroutines handed to asyncio.create_task, not yet run
    redis,                \* Redis: key -> [value, expire]
    user_security_profiles,   \* Mongo collection user_security_profiles: set of documents
    user_suspicious_activity, \* ClickHouse table user_suspicious_activity: bag of rows
    updates,              \* the profile updates in flight: slot -> coroutine state
    last                  \* what the last operation was given and answered

\* the state only the registered middleware reads and writes
middleware_vars == <<user_rate_limits, user_activity, RATE_LIMIT_CACHE,
                     ENDPOINT_CONFIG_CACHE, IP_BLACKLIST_CACHE, tasks>>

\* the state only the check_and_update_* pipeline reads and writes
legacy_vars == <<rate_limits, violations, ip_blacklist, rate_limit_overrides>>

\* the state only activity recording and its evaluation read and write
activity_vars == <<user_security_profiles, user_suspicious_activity, updates>>

vars == <<now, rate_limits, violations, ip_blacklist, user_ip_blacklist,
          rate_limit_overrides, rate_limit_configs, user_rate_limits, user_activity,
          RATE_LIMIT_CACHE, ENDPOINT_CONFIG_CACHE, IP_BLACKLIST_CACHE, tasks, redis,
          user_security_profiles, user_suspicious_activity, updates, last>>

\* ------------------------------------------------------------ observation
NoFault == [tier |-> "none", op |-> "none"]

NoLast == [op |-> "init", ip |-> "", user |-> NoUser, path |-> "", at |-> 0,
           fault |-> NoFault, fault_hit |-> FALSE,
           checks |-> <<>>, denied_by |-> "", outcome |-> "", status |-> 0,
           detail |-> "", headers |-> <<>>, auth |-> "", max_requests |-> 0, window_seconds |-> 0,
           remaining |-> 0]

\* an operation that answers no request leaves nothing to observe
Idle == [NoLast EXCEPT !.op = "idle"]

\* ------------------------------------------------------------------ keys
IpKey(ip) == "ip:" \o ip
UserKey(user_id, path) == "user:" \o user_id \o ":" \o path
EndpointKey(endpoint, client_ip) == "endpoint:" \o endpoint \o ":ip:" \o client_ip

\* ------------------------------------------------- the window counter store
RECURSIVE SumCounts(_, _)
SumCounts(bag, rows) ==
    IF rows = {} THEN 0
    ELSE LET r == CHOOSE x \in rows : TRUE
         IN bag[r] + SumCounts(bag, rows \ {r})

\* SELECT sum(counter) FROM rate_limits WHERE key = .. AND window_start >= ..
WindowCountStrict(rl, key, window_start) ==
    SumCounts(rl, {r \in BagToSet(rl) : r.key = key /\ r.window_start > window_start})

WindowCount(rl, key, window_start) ==
    SumCounts(rl, {r \in BagToSet(rl) : r.key = key /\ r.window_start >= window_start})

_record_violation_none(vi, key, type, limit, attempts, failing) == vi

_record_violation_limit_as_attempts(vi, key, type, limit, attempts, failing) ==
    IF failing THEN vi
    ELSE vi (+) SetToBag({[key |-> key, type |-> type, limit |-> limit,
                           attempts |-> limit]})

_record_violation(vi, key, type, limit, attempts, failing) ==
    IF failing THEN vi
    ELSE vi (+) SetToBag({[key |-> key, type |-> type, limit |-> limit,
                           attempts |-> attempts]})

\* f: the ClickHouse operation that raises in this call ("none" when none does)
_check_and_update_limit_closed(rl, vi, key, type, max_requests, window_seconds, t, f) ==
    LET total_count == WindowCount(rl, key, t - window_seconds)
    IN  IF f = "query" \/ total_count >= max_requests
        THEN [allowed |-> FALSE, rl |-> rl, vi |-> vi, hit |-> f = "query"]
        ELSE IF f = "insert"
        THEN [allowed |-> FALSE, rl |-> rl, vi |-> vi, hit |-> TRUE]
        ELSE [allowed |-> TRUE,
              rl |-> rl (+) SetToBag({[key |-> key, type |-> type, window_start |-> t]}),
              vi |-> vi, hit |-> FALSE]

\* a check that counts the request it denies as well
_check_and_update_limit_counts_denied(rl, vi, key, type, max_requests, window_seconds, t, f) ==
    LET total_count == WindowCount(rl, key, t - window_seconds)
    IN  IF f = "query"
        THEN [allowed |-> TRUE, rl |-> rl, vi |-> vi, hit |-> TRUE]
        ELSE IF f = "insert"
        THEN [allowed |-> total_count < max_requests, rl |-> rl, vi |-> vi, hit |-> TRUE]
        ELSE [allowed |-> total_count < max_requests,
              rl |-> rl (+) SetToBag({[key |-> key, type |-> type, window_start |-> t]}),
              vi |-> IF total_count >= max_requests
                     THEN _record_violation(vi, key, type, max_requests,
                                            total_count + 1, f = "violation")
                     ELSE vi,
              hit |-> FALSE]

_check_and_update_limit(rl, vi, key, type, max_requests, window_seconds, t, f) ==
    LET total_count == WindowCount(rl, key, t - window_seconds)
    IN  IF f = "query"
        THEN [allowed |-> TRUE, rl |-> rl, vi |-> vi, hit |-> TRUE]
        ELSE IF total_count >= max_requests
        THEN [allowed |-> FALSE, rl |-> rl,
              vi |-> _record_violation(vi, key, type, max_requests, total_count + 1,
                                       f = "violation"),
              hit |-> f = "violation"]
        ELSE IF f = "insert"
        THEN [allowed |-> TRUE, rl |-> rl, vi |-> vi, hit |-> TRUE]
        ELSE [allowed |-> TRUE,
              rl |-> rl (+) SetToBag({[key |-> key, type |-> type, window_start |-> t]}),
              vi |-> vi, hit |-> FALSE]

\* ------------------------------------------------------ the Mongo lookups
\* find_one: the first matching document, none when the result is empty
FindOne(docs) ==
    IF docs = {} THEN {}
    ELSE {CHOOSE d \in docs : \A e \in docs : d.id <= e.id}

_get_user_override_wildcard_first(ov, user_id, path) ==
    LET wildcard == FindOne({o \in ov : o.user_id = user_id /\ o.path = "*"})
    IN  IF wildcard # {} THEN wildcard
        ELSE FindOne({o \in ov : o.user_id = user_id /\ o.path = path})

_get_user_override(ov, user_id, path) ==
    LET exact == FindOne({o \in ov : o.user_id = user_id /\ o.path = path})
    IN  IF exact # {} THEN exact
        ELSE FindOne({o \in ov : o.user_id = user_id /\ o.path = "*"})

\* the definition at the end of the class, which is the one Python keeps
get_rate_limit_config(cfgs, endpoint, failing) ==
    IF failing THEN {}
    ELSE LET exact == {c \in cfgs : c.endpoint = endpoint /\ c.active}
         IN  IF exact # {} THEN {CHOOSE c \in exact : TRUE}
             ELSE LET global == {c \in cfgs : c.endpoint = "*" /\ c.active}
                  IN  IF global # {} THEN {CHOOSE c \in global : TRUE} ELSE {}

\* -------------------------------------------------------- the tier checks
\* Each answers [res, rl, vi, ov, hit, trace, max_requests, window_seconds]:
\* res is "allow", "deny" or "raise" (an exception leaves the call), trace the
\* checks the call evaluated, hit whether the failing operation was invoked.
Tier(res, rl, vi, ov, hit, trace, max_requests, window_seconds) ==
    [res |-> res, rl |-> rl, vi |-> vi, ov |-> ov, hit |-> hit, trace |-> trace,
     max_requests |-> max_requests, window_seconds |-> window_seconds]

Verdict(r) == IF r.allowed THEN "allow" ELSE "deny"

check_and_update_ip_limit(bl, ov, rl, vi, ip, max_requests, window_seconds, t, f) ==
    IF f = "db"
    THEN Tier("raise", rl, vi, ov, TRUE, <<"blacklist">>, max_requests, window_seconds)
    ELSE IF \E b \in bl : b.ip = ip
    THEN Tier("deny", rl, vi, ov, FALSE, <<"blacklist">>, max_requests, window_seconds)
    ELSE LET r == _check_and_update_limit(rl, vi, IpKey(ip), "ip", max_requests,
                                          window_seconds, t, f)
         IN  Tier(Verdict(r), r.rl, r.vi, ov, r.hit, <<"blacklist", "ip">>,
                  max_requests, window_seconds)

check_and_update_user_limit_keep_expired(ov, rl, vi, user_id, path, max_requests, window_seconds, t, f) ==
    IF f = "db"
    THEN Tier("raise", rl, vi, ov, TRUE, <<"user">>, max_requests, window_seconds)
    ELSE LET found == _get_user_override(ov, user_id, path)
             mr == IF found = {} THEN max_requests
                   ELSE (CHOOSE o \in found : TRUE).max_requests
             ws == IF found = {} THEN window_seconds
                   ELSE (CHOOSE o \in found : TRUE).window_seconds
             r == _check_and_update_limit(rl, vi, UserKey(user_id, path), "user",
                                          mr, ws, t, f)
         IN  Tier(Verdict(r), r.rl, r.vi, ov, r.hit, <<"user">>, mr, ws)

check_and_update_user_limit(ov, rl, vi, user_id, path, max_requests, window_seconds, t, f) ==
    IF f = "db"
    THEN Tier("raise", rl, vi, ov, TRUE, <<"user">>, max_requests, window_seconds)
    ELSE LET found == _get_user_override(ov, user_id, path)
             override == CHOOSE o \in found : TRUE
             expired == found # {} /\ override.expires_at # NoTime
                        /\ override.expires_at < t
             applies == found # {} /\ ~expired
             ov2 == IF expired THEN {o \in ov : o.id # override.id} ELSE ov
             mr == IF applies THEN override.max_requests ELSE max_requests
             ws == IF applies THEN override.window_seconds ELSE window_seconds
             r == _check_and_update_limit(rl, vi, UserKey(user_id, path), "user",
                                          mr, ws, t, f)
         IN  Tier(Verdict(r), r.rl, r.vi, ov2, r.hit, <<"user">>, mr, ws)

\* (variant) the handler answers the limits the caller passed in
get_user_limit_status_passed_in(ov, rl, user_id, path, max_requests, window_seconds, t, f) ==
    IF f = "db"
    THEN [total_allowed |-> max_requests, remaining |-> max_requests,
          window_seconds |-> window_seconds, ov |-> ov, hit |-> TRUE]
    ELSE LET found == _get_user_override(ov, user_id, path)
             override == CHOOSE o \in found : TRUE
             expired == found # {} /\ override.expires_at # NoTime
                        /\ override.expires_at < t
             applies == found # {} /\ ~expired
             ov2 == IF expired THEN {o \in ov : o.id # override.id} ELSE ov
             mr == IF applies THEN override.max_requests ELSE max_requests
             ws == IF applies THEN override.window_seconds ELSE window_seconds
             total_count == WindowCount(rl, UserKey(user_id, path), t - ws)
         IN  IF f = "query"
             THEN [total_allowed |-> max_requests, remaining |-> max_requests,
                   window_seconds |-> window_seconds, ov |-> ov2, hit |-> TRUE]
             ELSE [total_allowed |-> mr,
                   remaining |-> IF mr - total_count > 0 THEN mr - total_count ELSE 0,
                   window_seconds |-> ws, ov |-> ov2, hit |-> FALSE]

\* RateLimitStatus of a user's key; the whole body runs inside one try, whose
\* handler answers the limits it holds at that moment as all remaining
get_user_limit_status(ov, rl, user_id, path, max_requests, window_seconds, t, f) ==
    IF f = "db"
    THEN [total_allowed |-> max_requests, remaining |-> max_requests,
          window_seconds |-> window_seconds, ov |-> ov, hit |-> TRUE]
    ELSE LET found == _get_user_override(ov, user_id, path)
             override == CHOOSE o \in found : TRUE
             expired == found # {} /\ override.expires_at # NoTime
                        /\ override.expires_at < t
             applies == found # {} /\ ~expired
             ov2 == IF expired THEN {o \in ov : o.id # override.id} ELSE ov
             mr == IF applies THEN override.max_requests ELSE max_requests
             ws == IF applies THEN override.window_seconds ELSE window_seconds
             total_count == WindowCount(rl, UserKey(user_id, path), t - ws)
         IN  IF f = "query"
             THEN [total_allowed |-> mr, remaining |-> mr, window_seconds |-> ws,
                   ov |-> ov2, hit |-> TRUE]
             ELSE [total_allowed |-> mr,
                   remaining |-> IF mr - total_count > 0 THEN mr - total_count ELSE 0,
                   window_seconds |-> ws, ov |-> ov2, hit |-> FALSE]

check_and_update_endpoint_limit(ov, rl, vi, endpoint, client_ip, max_requests, window_seconds, t, f) ==
    LET r == _check_and_update_limit(rl, vi, EndpointKey(endpoint, client_ip),
                                     "endpoint", max_requests, window_seconds, t, f)
    IN  Tier(Verdict(r), r.rl, r.vi, ov, r.hit, <<"endpoint">>,
             max_requests, window_seconds)

\* ------------------------------------- src/middleware/rate_limiter.py dispatch
\* The result of a request: the checks evaluated in order, the check that
\* denied (if any), the outcome and the stores as the request leaves them.
Result(checks, denied_by, outcome, status, s, hit) ==
    [checks |-> checks, denied_by |-> denied_by, outcome |-> outcome,
     status |-> status, rl |-> s.rl, vi |-> s.vi, ov |-> s.ov, hit |-> hit,
     max_requests |-> s.max_requests, window_seconds |-> s.window_seconds]

FaultAt(fault, tier) == IF fault.tier = tier THEN fault.op ELSE "none"

\* the endpoint tier, reached when the IP tier and the user tier allowed
LegacyEndpointStage(cfgs, s, checks, hit, client_ip, path, t, fault) ==
    LET f == FaultAt(fault, "endpoint")
        endpoint_config == get_rate_limit_config(cfgs, path, f = "db")
        cfg == CHOOSE c \in endpoint_config : TRUE
    IN  IF endpoint_config = {}
        THEN Result(checks, "", "forwarded", 0, s, hit \/ f = "db")
        ELSE LET e == check_and_update_endpoint_limit(s.ov, s.rl, s.vi, path, client_ip,
                          cfg.max_requests, cfg.window_seconds, t, f)
                 s3 == [e EXCEPT !.max_requests = s.max_requests,
                                 !.window_seconds = s.window_seconds]
             IN  IF e.res = "deny"
                 THEN Result(checks \o e.trace, "endpoint", "denied", 429, s3, hit \/ e.hit)
                 ELSE Result(checks \o e.trace, "", "forwarded", 0, s3, hit \/ e.hit)

\* the user tier (authenticated requests only), reached when the IP tier allowed
LegacyUserStage(cfgs, s, checks, hit, client_ip, user_id, path, t, fault) ==
    IF user_id = NoUser
    THEN LegacyEndpointStage(cfgs, [s EXCEPT !.max_requests = 0, !.window_seconds = 0],
                             checks, hit, client_ip, path, t, fault)
    ELSE LET u == check_and_update_user_limit(s.ov, s.rl, s.vi, user_id, path,
                      RATE_LIMIT_USER_MAX_REQUESTS, RATE_LIMIT_USER_WINDOW_SECONDS,
                      t, FaultAt(fault, "user"))
         IN  IF u.res = "raise"
             THEN Result(checks \o u.trace, "", "forwarded", 0, u, hit \/ u.hit)
             ELSE IF u.res = "deny"
             THEN Result(checks \o u.trace, "user", "denied", 429, u, hit \/ u.hit)
             ELSE LegacyEndpointStage(cfgs, u, checks \o u.trace, hit \/ u.hit,
                                      client_ip, path, t, fault)

legacy_dispatch(bl, ov, cfgs, rl, vi, client_ip, user_id, path, t, fault) ==
    LET s0 == Tier("allow", rl, vi, ov, FALSE, <<>>, 0, 0)
    IN  IF path \in ExemptPaths
        THEN Result(<<>>, "", "forwarded", 0, s0, FALSE)
        ELSE IF fault.tier = "setup"
        THEN Result(<<>>, "", "forwarded", 0, s0, TRUE)
        ELSE LET i == check_and_update_ip_limit(bl, ov, rl, vi, client_ip,
                          RATE_LIMIT_IP_MAX_REQUESTS, RATE_LIMIT_IP_WINDOW_SECONDS,
                          t, FaultAt(fault, "ip"))
             IN  IF i.res = "raise"
                 THEN Result(i.trace, "", "forwarded", 0, i, i.hit)
                 ELSE IF i.res = "deny"
                 THEN Result(i.trace, i.trace[Len(i.trace)], "denied", 429, i, i.hit)
                 ELSE LegacyUserStage(cfgs, i, i.trace, i.hit, client_ip, user_id,
                                      path, t, fault)

\* the operations that can raise in a request of the earlier pipeline
LegacyFaults ==
    {NoFault} \cup [tier : {"ip", "user", "endpoint"}, op : {"query", "insert"}]

LegacyDispatch(client_ip, user_id, path, fault) ==
    LET r == legacy_dispatch(ip_blacklist, rate_limit_overrides, rate_limit_configs,
                             rate_limits, violations, client_ip, user_id, path, now, fault)
    IN  /\ BagCardinality(r.vi) <= MaxViolations
        /\ rate_limits' = r.rl
        /\ violations' = r.vi
        /\ rate_limit_overrides' = r.ov
        /\ last' = [NoLast EXCEPT !.op = "legacy_dispatch", !.ip = client_ip,
                       !.user = user_id, !.path = path, !.at = now,
                       !.fault = IF r.hit THEN fault ELSE NoFault,
                       !.fault_hit = r.hit, !.checks = r.checks,
                       !.denied_by = r.denied_by, !.outcome = r.outcome,
                       !.status = r.status, !.max_requests = r.max_requests,
                       !.window_seconds = r.window_seconds]
        /\ UNCHANGED <<activity_vars, redis, middleware_vars, now, ip_blacklist, user_ip_blacklist, rate_limit_configs>>

\* ------------------- stufio/modules/activity/middleware/rate_limiter.py dispatch
\* toStartOfMinute(timestamp), the bucket of the per-minute views
toStartOfMinute(t) == t - (t % MinuteSeconds)

\* the three views count the rows of user_activity per (key, minute)
check_ip_limit(ua, ip, max_requests, window_seconds, t, failing) ==
    IF failing THEN TRUE
    ELSE SumCounts(ua, {r \in BagToSet(ua) :
                           r.client_ip = ip /\ r.minute >= t - window_seconds})
             < max_requests

check_user_limit(ua, user_id, path, max_requests, window_seconds, t, failing) ==
    IF failing THEN TRUE
    ELSE SumCounts(ua, {r \in BagToSet(ua) :
                           /\ r.user_id # NoUser /\ r.user_id = user_id /\ r.path = path
                           /\ r.minute >= t - window_seconds})
             < max_requests

check_endpoint_limit(ua, path, client_ip, max_requests, window_seconds, t, failing) ==
    IF failing THEN TRUE
    ELSE SumCounts(ua, {r \in BagToSet(ua) :
                           /\ r.path = path /\ r.client_ip = client_ip
                           /\ r.minute >= t - window_seconds})
             < max_requests

NotLimited == [is_limited |-> FALSE, reason |-> ""]

is_user_rate_limited_never(url, user_id, t, failing) == NotLimited

is_user_rate_limited_inclusive(url, user_id, t, failing) ==
    IF failing THEN NotLimited
    ELSE IF \E r \in url : /\ r.user_id = user_id /\ r.is_limited
                           /\ r.limited_until # NoTime /\ r.limited_until >= t
    THEN [is_limited |-> TRUE,
          reason |-> (CHOOSE r \in url : r.user_id = user_id).reason]
    ELSE NotLimited

\* (is_limited, reason) of a user's stored block; a failing read answers
\* (False, None)
is_user_rate_limited(url, user_id, t, failing) ==
    IF failing THEN NotLimited
    ELSE IF \E r \in url : /\ r.user_id = user_id /\ r.is_limited
                           /\ r.limited_until # NoTime /\ r.limited_until > t
    THEN [is_limited |-> TRUE,
          reason |-> (CHOOSE r \in url : r.user_id = user_id).reason]
    ELSE NotLimited

\* dict[key] = value
Put(dict, key, value) ==
    [k \in DOMAIN dict \cup {key} |-> IF k = key THEN value ELSE dict[k]]

\* cached and cached[1] > now
Valid(dict, key, t) == key \in DOMAIN dict /\ dict[key].expire > t

EndpointCacheKey(path, client_ip) == "endpoint:" \o path \o ":" \o client_ip

get_cached_rate_limit_decision_deny_longer(cache, cache_key, is_allowed, t) ==
    IF Valid(cache, cache_key, t)
    THEN [is_allowed |-> cache[cache_key].is_allowed, cache |-> cache]
    ELSE [is_allowed |-> is_allowed,
          cache |-> Put(cache, cache_key,
                        [is_allowed |-> is_allowed,
                         expire |-> IF is_allowed THEN t + CACHE_TTL_SECONDS
                                    ELSE t + CACHE_TTL_SECONDS + 1])]

\* is_allowed: what check_func answers when it is called
get_cached_rate_limit_decision(cache, cache_key, is_allowed, t) ==
    IF Valid(cache, cache_key, t)
    THEN [is_allowed |-> cache[cache_key].is_allowed, cache |-> cache]
    ELSE [is_allowed |-> is_allowed,
          cache |-> Put(cache, cache_key,
                        [is_allowed |-> is_allowed, expire |-> t + CACHE_TTL_SECONDS])]

\* (variant) a hit pushes the entry's expiry out again
get_cached_rate_limit_config_sliding(cfgcache, cfgs, endpoint, t, failing) ==
    IF Valid(cfgcache, endpoint, t)
    THEN [config |-> cfgcache[endpoint].config,
          cfgcache |-> Put(cfgcache, endpoint,
                           [config |-> cfgcache[endpoint].config,
                            expire |-> t + ENDPOINT_CACHE_TTL]),
          hit |-> FALSE]
    ELSE LET config == get_rate_limit_config(cfgs, endpoint, failing)
         IN  [config |-> config,
              cfgcache |-> Put(cfgcache, endpoint,
                               [config |-> config, expire |-> t + ENDPOINT_CACHE_TTL]),
              hit |-> failing]

get_cached_rate_limit_config(cfgcache, cfgs, endpoint, t, failing) ==
    IF Valid(cfgcache, endpoint, t)
    THEN [config |-> cfgcache[endpoint].config, cfgcache |-> cfgcache, hit |-> FALSE]
    ELSE LET config == get_rate_limit_config(cfgs, endpoint, failing)
         IN  [config |-> config,
              cfgcache |-> Put(cfgcache, endpoint,
                               [config |-> config, expire |-> t + ENDPOINT_CACHE_TTL]),
              hit |-> failing]

\* a coroutine handed to asyncio.create_task
SetUserRateLimitedTask(user_id, reason, duration_minutes) ==
    [name |-> "set_user_rate_limited", user_id |-> user_id, reason |-> reason,
     duration_minutes |-> duration_minutes]

\* ---- the bearer token of a request
startswith(s, prefix) ==
    Len(prefix) <= Len(s) /\ SubSeq(s, 1, Len(prefix)) = prefix

\* no authorization header, the token of user u1, a token that does not decode
AuthHeaders == {"", "Bearer u1", "Bearer bad"}

\* a decoder that raises for no token: whatever it is given is the subject
TokenSub_unverified(token) == token

\* deps.get_token_payload(token).sub, NoUser where the call raises
TokenSub(token) == IF token \in Users THEN token ELSE NoUser

\* the user the limiter reads from the authorization header: a token that
\* does not decode is logged at debug level and leaves user_id None
RequestUser(auth_header) ==
    IF auth_header # "" /\ startswith(auth_header, "Bearer ")
    THEN TokenSub(SubSeq(auth_header, Len("Bearer ") + 1, Len(auth_header)))
    ELSE NoUser

\* the authorization header of a request of user_id
BearerOf(user_id) == IF user_id = NoUser THEN "" ELSE "Bearer " \o user_id

\* a response that tells the client when to come back
Response_retry_after(checks, denied_by, outcome, status, detail, cache, cfgcache, tk, hit) ==
    [checks |-> checks, denied_by |-> denied_by, outcome |-> outcome,
     status |-> status, detail |-> detail,
     headers |-> IF outcome = "denied" THEN ("Retry-After" :> 60) ELSE <<>>,
     cache |-> cache, cfgcache |-> cfgcache, tasks |-> tk, hit |-> hit]

\* what a request leaves: the checks it evaluated in order, the one that
\* denied, the outcome, the status and the body of a JSONResponse, which is
\* given no headers, and the caches and the scheduled tasks
Response(checks, denied_by, outcome, status, detail, cache, cfgcache, tk, hit) ==
    [checks |-> checks, denied_by |-> denied_by, outcome |-> outcome,
     status |-> status, detail |-> detail, headers |-> <<>>, cache |-> cache,
     cfgcache |-> cfgcache, tasks |-> tk, hit |-> hit]

\* 3. the endpoint window, for the path's config or the global one
EndpointStage(cache, cfgcache, tk, cfgs, ua, checks, hit, client_ip, path, t, fault) ==
    LET endpoint_cache_key == EndpointCacheKey(path, client_ip)
        f == FaultAt(fault, "endpoint")
        c == get_cached_rate_limit_config(cfgcache, cfgs, path, t, f = "db")
        endpoint_config == CHOOSE x \in c.config : TRUE
        detail == "Rate limit exceeded for " \o path
    IN  IF c.config = {}
        THEN Response(checks, "", "forwarded", 0, "", cache, c.cfgcache, tk, hit \/ c.hit)
        ELSE IF Valid(cache, endpoint_cache_key, t)
        THEN IF ~cache[endpoint_cache_key].is_allowed
             THEN Response(checks \o <<"endpoint">>, "endpoint", "denied", 429, detail,
                           cache, c.cfgcache, tk, hit)
             ELSE Response(checks \o <<"endpoint">>, "", "forwarded", 0, "",
                           cache, c.cfgcache, tk, hit)
        ELSE LET d == get_cached_rate_limit_decision(cache, endpoint_cache_key,
                          check_endpoint_limit(ua, path, client_ip,
                              endpoint_config.max_requests,
                              endpoint_config.window_seconds, t, f = "query"), t)
             IN  IF ~d.is_allowed
                 THEN Response(checks \o <<"endpoint">>, "endpoint", "denied", 429,
                               detail, d.cache, c.cfgcache, tk, hit)
                 \* update_endpoint_request_count(max_requests=..) raises TypeError,
                 \* which the handler at the end of dispatch swallows
                 ELSE Response(checks \o <<"endpoint">>, "", "forwarded", 0, "",
                               d.cache, c.cfgcache, tk, hit \/ f = "query")

\* 2. the user window, for authenticated requests
UserStage(cache, cfgcache, tk, cfgs, ua, checks, hit, client_ip, user_id, path, t, fault) ==
    LET user_cache_key == UserKey(user_id, path)
        f == FaultAt(fault, "user")
        detail == "Too many requests - please slow down"
    IN  IF user_id = NoUser
        THEN EndpointStage(cache, cfgcache, tk, cfgs, ua, checks, hit, client_ip, path,
                           t, fault)
        ELSE IF Valid(cache, user_cache_key, t)
        THEN IF ~cache[user_cache_key].is_allowed
             THEN Response(checks \o <<"user">>, "user", "denied", 429, detail,
                           cache, cfgcache, tk, hit)
             ELSE EndpointStage(cache, cfgcache, tk, cfgs, ua, checks \o <<"user">>, hit,
                                client_ip, path, t, fault)
        ELSE LET d == get_cached_rate_limit_decision(cache, user_cache_key,
                          check_user_limit(ua, user_id, path,
                              RATE_LIMIT_USER_MAX_REQUESTS,
                              RATE_LIMIT_USER_WINDOW_SECONDS, t, f = "query"), t)
             IN  IF ~d.is_allowed
                 THEN Response(checks \o <<"user">>, "user", "denied", 429, detail,
                          d.cache, cfgcache,
                          tk (+) SetToBag({SetUserRateLimitedTask(user_id,
                                    "User rate limit exceeded for " \o path,
                                    USER_BLOCK_MINUTES)}),
                          hit)
                 \* update_user_request_count(max_requests=..) raises TypeError
                 ELSE Response(checks \o <<"user">>, "", "forwarded", 0, "",
                               d.cache, cfgcache, tk, hit \/ f = "query")

\* (variant) a cached ALLOW that is read has its lifetime extended by a TTL
IpStage_sliding(cache, cfgcache, tk, cfgs, ua, checks, hit, client_ip, user_id, path, t, fault) ==
    LET ip_cache_key == IpKey(client_ip)
        f == FaultAt(fault, "ip")
        detail == "Too many requests from this IP address"
    IN  IF Valid(cache, ip_cache_key, t)
        THEN IF ~cache[ip_cache_key].is_allowed
             THEN Response(checks \o <<"ip">>, "ip", "denied", 429, detail,
                           cache, cfgcache, tk, hit)
             ELSE UserStage(Put(cache, ip_cache_key,
                                [is_allowed |-> TRUE,
                                 expire |-> cache[ip_cache_key].expire + CACHE_TTL_SECONDS]),
                            cfgcache, tk, cfgs, ua, checks \o <<"ip">>, hit,
                            client_ip, user_id, path, t, fault)
        ELSE LET d == get_cached_rate_limit_decision(cache, ip_cache_key,
                          check_ip_limit(ua, client_ip, RATE_LIMIT_IP_MAX_REQUESTS,
                              RATE_LIMIT_IP_WINDOW_SECONDS, t, f = "query"), t)
             IN  IF ~d.is_allowed
                 THEN Response(checks \o <<"ip">>, "ip", "denied", 429, detail,
                          d.cache, cfgcache,
                          tk (+) SetToBag({SetUserRateLimitedTask(
                                    IF user_id # NoUser THEN user_id ELSE IpKey(client_ip),
                                    "IP-based rate limit exceeded", IP_BLOCK_MINUTES)}),
                          hit)
                 \* update_ip_request_count(max_requests=..) raises TypeError
                 ELSE Response(checks \o <<"ip">>, "", "forwarded", 0, "",
                               d.cache, cfgcache, tk, hit \/ f = "query")

\* 1. the IP window
IpStage(cache, cfgcache, tk, cfgs, ua, checks, hit, client_ip, user_id, path, t, fault) ==
    LET ip_cache_key == IpKey(client_ip)
        f == FaultAt(fault, "ip")
        detail == "Too many requests from this IP address"
    IN  IF Valid(cache, ip_cache_key, t)
        THEN IF ~cache[ip_cache_key].is_allowed
             THEN Response(checks \o <<"ip">>, "ip", "denied", 429, detail,
                           cache, cfgcache, tk, hit)
             ELSE UserStage(cache, cfgcache, tk, cfgs, ua, checks \o <<"ip">>, hit,
                            client_ip, user_id, path, t, fault)
        ELSE LET d == get_cached_rate_limit_decision(cache, ip_cache_key,
                          check_ip_limit(ua, client_ip, RATE_LIMIT_IP_MAX_REQUESTS,
                              RATE_LIMIT_IP_WINDOW_SECONDS, t, f = "query"), t)
             IN  IF ~d.is_allowed
                 THEN Response(checks \o <<"ip">>, "ip", "denied", 429, detail,
                          d.cache, cfgcache,
                          tk (+) SetToBag({SetUserRateLimitedTask(
                                    IF user_id # NoUser THEN user_id ELSE IpKey(client_ip),
                                    "IP-based rate limit exceeded", IP_BLOCK_MINUTES)}),
                          hit)
                 \* update_ip_request_count(max_requests=..) raises TypeError
                 ELSE Response(checks \o <<"ip">>, "", "forwarded", 0, "",
                               d.cache, cfgcache, tk, hit \/ f = "query")

\* (variant) the stored block is looked up for every request, under the key
\* the IP tier would write it
dispatch_any_identity(url, cache, cfgcache, tk, cfgs, ua, client_ip, user_id, path, t, fault) ==
    LET f == FaultAt(fault, "persistent")
        b == is_user_rate_limited(url, IF user_id # NoUser THEN user_id ELSE IpKey(client_ip), t, f = "db")
    IN  IF path \in ExemptPaths
        THEN Response(<<>>, "", "forwarded", 0, "", cache, cfgcache, tk, FALSE)
        ELSE IF b.is_limited
        THEN Response(<<"persistent">>, "persistent", "denied", 429, b.reason,
                      cache, cfgcache, tk, FALSE)
        ELSE IpStage(cache, cfgcache, tk, cfgs, ua,
                     IF user_id = NoUser THEN <<>> ELSE <<"persistent">>,
                     user_id # NoUser /\ f = "db", client_ip, user_id, path, t, fault)

dispatch(url, cache, cfgcache, tk, cfgs, ua, client_ip, user_id, path, t, fault) ==
    IF path \in ExemptPaths
    THEN Response(<<>>, "", "forwarded", 0, "", cache, cfgcache, tk, FALSE)
    ELSE IF user_id = NoUser
    THEN IpStage(cache, cfgcache, tk, cfgs, ua, <<>>, FALSE, client_ip, user_id, path,
                 t, fault)
    ELSE LET f == FaultAt(fault, "persistent")
             b == is_user_rate_limited(url, user_id, t, f = "db")
         IN  IF b.is_limited
             THEN Response(<<"persistent">>, "persistent", "denied", 429, b.reason,
                           cache, cfgcache, tk, FALSE)
             ELSE IpStage(cache, cfgcache, tk, cfgs, ua, <<"persistent">>, f = "db",
                          client_ip, user_id, path, t, fault)

\* the operations that can raise in a request of the registered middleware
DispatchFaults ==
    {NoFault, [tier |-> "persistent", op |-> "db"]}
    \cup [tier : {"ip", "user", "endpoint"}, op : {"query"}]

\* ActivityTrackingMiddleware records the requests under API_V1_STR
TrackedPaths == {API_V1_STR \o "/x"}

\* One request through the limiter, and its row in user_activity.  Every
\* request that is forwarded is recorded; tracked says whether the limiter's
\* own 429 answers are recorded too, which the stacking order in the host
\* application decides.  The insert is taken to complete with the request.
DispatchRequest(client_ip, auth_header, path, fault, tracked) ==
    LET user_id == RequestUser(auth_header)
        r == dispatch(user_rate_limits, RATE_LIMIT_CACHE, ENDPOINT_CONFIG_CACHE, tasks,
                      rate_limit_configs, user_activity, client_ip, user_id, path,
                      now, fault)
        record == path \in TrackedPaths /\ path \notin ExemptPaths
                  /\ (r.outcome = "forwarded" \/ tracked)
    IN  /\ r.outcome = "forwarded" => ~tracked
        /\ BagCardinality(r.tasks) <= MaxTasks
        /\ record => BagCardinality(user_activity) < MaxActivity
        /\ RATE_LIMIT_CACHE' = r.cache
        /\ ENDPOINT_CONFIG_CACHE' = r.cfgcache
        /\ tasks' = r.tasks
        /\ user_activity' =
               IF record
               THEN user_activity (+) SetToBag({
                        [client_ip |-> client_ip, user_id |-> user_id, path |-> path,
                         minute |-> toStartOfMinute(now)]})
               ELSE user_activity
        /\ last' = [NoLast EXCEPT !.op = "dispatch", !.ip = client_ip,
                       !.user = user_id, !.path = path, !.at = now,
                       !.fault = IF r.hit THEN fault ELSE NoFault,
                       !.fault_hit = r.hit, !.checks = r.checks,
                       !.denied_by = r.denied_by, !.outcome = r.outcome,
                       !.status = r.status, !.detail = r.detail,
                       !.headers = r.headers, !.auth = auth_header]
        /\ UNCHANGED <<activity_vars, redis, legacy_vars, now, user_ip_blacklist, rate_limit_configs,
                       user_rate_limits, IP_BLACKLIST_CACHE>>

\* a request of user_id, or of nobody
Dispatch(client_ip, user_id, path, fault, tracked) ==
    DispatchRequest(client_ip, BearerOf(user_id), path, fault, tracked)

\* update_one without upsert: only a record that exists is overwritten
set_user_rate_limited_no_upsert(url, user_id, reason, duration_minutes, t) ==
    {IF r.user_id = user_id
     THEN [user_id |-> user_id, is_limited |-> TRUE, reason |-> reason,
           limited_until |-> t + duration_minutes]
     ELSE r : r \in url}

\* (variant) every call adds a record
set_user_rate_limited_appends(url, user_id, reason, duration_minutes, t) ==
    url \cup {[user_id |-> user_id, is_limited |-> TRUE, reason |-> reason,
               limited_until |-> t + duration_minutes]}

\* update_one(.., upsert=True): the user's record is created or overwritten
set_user_rate_limited(url, user_id, reason, duration_minutes, t) ==
    {r \in url : r.user_id # user_id}
    \cup {[user_id |-> user_id, is_limited |-> TRUE, reason |-> reason,
           limited_until |-> t + duration_minutes]}

\* the event loop runs one scheduled coroutine
RunTask(task) ==
    /\ BagIn(task, tasks)
    /\ task.name = "set_user_rate_limited"
    /\ tasks' = tasks (-) SetToBag({task})
    /\ user_rate_limits' = set_user_rate_limited(user_rate_limits, task.user_id,
                                task.reason, task.duration_minutes, now)
    /\ last' = Idle
    /\ UNCHANGED <<activity_vars, redis, legacy_vars, now, user_ip_blacklist, rate_limit_configs,
                   user_activity, RATE_LIMIT_CACHE, ENDPOINT_CONFIG_CACHE,
                   IP_BLACKLIST_CACHE>>

\* the identities the middleware writes a block for: a user id, or the
\* key "ip:<client_ip>" of an anonymous request
BlockedIds == Users \cup {IpKey(ip) : ip \in IPs}
BlockReasons == {"IP-based rate limit exceeded", "User rate limit exceeded for " \o LimitedPath}
BlockMinutes == {USER_BLOCK_MINUTES, IP_BLOCK_MINUTES}

\* set_user_rate_limited called and awaited
SetUserRateLimited(user_id, reason, duration_minutes) ==
    /\ user_rate_limits' = set_user_rate_limited(user_rate_limits, user_id, reason,
                                duration_minutes, now)
    /\ last' = [duration_minutes |-> duration_minutes]
               @@ [NoLast EXCEPT !.op = "set_user_rate_limited", !.user = user_id,
                      !.at = now, !.detail = reason, !.outcome = "true"]
    /\ UNCHANGED <<activity_vars, redis, legacy_vars, now, user_ip_blacklist, rate_limit_configs,
                   user_activity, RATE_LIMIT_CACHE, ENDPOINT_CONFIG_CACHE,
                   IP_BLACKLIST_CACHE, tasks>>

\* update_one without upsert: a user without a record stays without one
RemoveUserRateLimit(user_id) ==
    /\ \E r \in user_rate_limits : r.user_id = user_id
    /\ user_rate_limits' =
           {r \in user_rate_limits : r.user_id # user_id}
           \cup {[user_id |-> user_id, is_limited |-> FALSE, reason |-> "",
                  limited_until |-> NoTime]}
    /\ last' = [NoLast EXCEPT !.op = "remove_user_rate_limit", !.user = user_id,
                   !.at = now, !.outcome = "true"]
    /\ UNCHANGED <<activity_vars, redis, legacy_vars, now, user_ip_blacklist, rate_limit_configs,
                   user_activity, RATE_LIMIT_CACHE, ENDPOINT_CONFIG_CACHE,
                   IP_BLACKLIST_CACHE, tasks>>

\* the read, called on its own
IsUserRateLimited(user_id, failing) ==
    LET b == is_user_rate_limited(user_rate_limits, user_id, now, failing)
    IN  /\ last' = [NoLast EXCEPT !.op = "is_user_rate_limited", !.user = user_id,
                       !.at = now,
                       !.fault = IF failing THEN [tier |-> "persistent", op |-> "db"]
                                 ELSE NoFault,
                       !.fault_hit = failing,
                       !.outcome = IF b.is_limited THEN "limited" ELSE "not_limited",
                       !.detail = b.reason]
        /\ UNCHANGED <<activity_vars, redis, legacy_vars, middleware_vars, now, user_ip_blacklist,
                       rate_limit_configs>>

\* MongoDB's TTL monitor on the index over limited_until (expireAfterSeconds 0)
TtlSweep ==
    /\ \E r \in user_rate_limits : r.limited_until # NoTime /\ r.limited_until < now
    /\ user_rate_limits' = {r \in user_rate_limits :
                               r.limited_until = NoTime \/ r.limited_until >= now}
    /\ last' = Idle
    /\ UNCHANGED <<activity_vars, redis, legacy_vars, now, user_ip_blacklist, rate_limit_configs,
                   user_activity, RATE_LIMIT_CACHE, ENDPOINT_CONFIG_CACHE,
                   IP_BLACKLIST_CACHE, tasks>>

\* ------------------------------------ services/rate_limit.py RateLimitService
RATE_LIMIT_REDIS_PREFIX == "ratelimit:"

\* Each branch calls crud_rate_limit.check_*_limit without clickhouse_db and
\* max_requests: the call raises TypeError, the handler logs it and the
\* function answers None.
_check_limit(record_type, record_data, window_seconds) == "None"

\* a cached decision: "A", or "D:<block_until>" kept as its two parts
Allowed == [prefix |-> "A", block_until |-> 0]

\* (variant) a check that cannot be carried out denies
check_limit_fail_closed(rd, key, max_requests, window_seconds, record_type, record_data, t, fault) ==
    LET redis_key == RATE_LIMIT_REDIS_PREFIX \o "check:" \o key
        cached == Valid(rd, redis_key, t)
        is_allowed == IF cached /\ rd[redis_key].value.prefix = "D"
                         /\ rd[redis_key].value.parses
                         /\ rd[redis_key].value.block_until > t THEN "False"
                      ELSE IF cached /\ rd[redis_key].value = Allowed THEN "True"
                      ELSE "None"
    IN  IF fault = "get"
        THEN [res |-> "raise", redis |-> rd, hit |-> TRUE]
        ELSE IF is_allowed = "True"
        THEN [res |-> "allow",
              redis |-> IF fault = "set" THEN rd
                        ELSE Put(rd, redis_key, [value |-> Allowed,
                                                 expire |-> t + RATE_LIMIT_DECISION_TTL]),
              hit |-> fault = "set"]
        ELSE IF is_allowed = "False"
        THEN [res |-> "deny", redis |-> rd, hit |-> FALSE]
        ELSE IF record_type # "" /\ record_data
        THEN LET fresh == _check_limit(record_type, record_data, window_seconds)
             IN  IF fresh = "True"
                 THEN [res |-> "allow",
                       redis |-> IF fault = "set" THEN rd
                                 ELSE Put(rd, redis_key,
                                          [value |-> Allowed,
                                           expire |-> t + RATE_LIMIT_DECISION_TTL]),
                       hit |-> fault = "set"]
                 ELSE IF fresh = "False"
                 THEN [res |-> "deny",
                       redis |-> IF fault = "set" THEN rd
                                 ELSE Put(rd, redis_key,
                                          [value |-> [prefix |-> "D",
                                                      block_until |-> t + window_seconds,
                                                      parses |-> TRUE],
                                           expire |-> t + window_seconds]),
                       hit |-> fault = "set"]
                 ELSE [res |-> "deny", redis |-> rd, hit |-> FALSE]
        ELSE [res |-> "allow", redis |-> rd, hit |-> FALSE]

\* fault: the Redis operation that raises in this call ("get", "set"), if any
check_limit(rd, key, max_requests, window_seconds, record_type, record_data, t, fault) ==
    LET redis_key == RATE_LIMIT_REDIS_PREFIX \o "check:" \o key
        cached == Valid(rd, redis_key, t)
        is_allowed == IF cached /\ rd[redis_key].value.prefix = "D"
                         /\ rd[redis_key].value.parses
                         /\ rd[redis_key].value.block_until > t THEN "False"
                      ELSE IF cached /\ rd[redis_key].value = Allowed THEN "True"
                      ELSE "None"
    IN  IF fault = "get"
        THEN [res |-> "raise", redis |-> rd, hit |-> TRUE]
        ELSE IF is_allowed = "True"
        THEN [res |-> "allow",
              redis |-> IF fault = "set" THEN rd
                        ELSE Put(rd, redis_key, [value |-> Allowed,
                                                 expire |-> t + RATE_LIMIT_DECISION_TTL]),
              hit |-> fault = "set"]
        ELSE IF is_allowed = "False"
        THEN [res |-> "deny", redis |-> rd, hit |-> FALSE]
        ELSE IF record_type # "" /\ record_data
        THEN LET fresh == _check_limit(record_type, record_data, window_seconds)
             IN  IF fresh = "True"
                 THEN [res |-> "allow",
                       redis |-> IF fault = "set" THEN rd
                                 ELSE Put(rd, redis_key,
                                          [value |-> Allowed,
                                           expire |-> t + RATE_LIMIT_DECISION_TTL]),
                       hit |-> fault = "set"]
                 ELSE IF fresh = "False"
                 THEN [res |-> "deny",
                       redis |-> IF fault = "set" THEN rd
                                 ELSE Put(rd, redis_key,
                                          [value |-> [prefix |-> "D",
                                                      block_until |-> t + window_seconds,
                                                      parses |-> TRUE],
                                           expire |-> t + window_seconds]),
                       hit |-> fault = "set"]
                 ELSE [res |-> "allow", redis |-> rd, hit |-> FALSE]
        ELSE [res |-> "allow", redis |-> rd, hit |-> FALSE]

\* blacklist_ip: the reason under the violation key, for duration_seconds or,
\* when that is None or 0, for IP_BLACKLIST_TTL
blacklist_ip(rd, ip, reason, duration_seconds, t) ==
    LET expiration == IF duration_seconds # 0 THEN duration_seconds ELSE IP_BLACKLIST_TTL
    IN  Put(rd, RATE_LIMIT_REDIS_PREFIX \o "violation:ip:" \o ip,
            [value |-> reason, expire |-> t + expiration])

\* is_ip_blacklisted without a db_fetch_func
is_ip_blacklisted(rd, ip, t) ==
    \/ Valid(rd, RATE_LIMIT_REDIS_PREFIX \o "blacklist:ip:" \o ip, t)
    \/ Valid(rd, RATE_LIMIT_REDIS_PREFIX \o "violation:ip:" \o ip, t)

RecordTypes == {"", "ip", "user", "endpoint"}
RedisFaults == {"none", "get", "set"}

CheckLimit(key, max_requests, window_seconds, record_type, record_data, fault) ==
    LET r == check_limit(redis, key, max_requests, window_seconds, record_type,
                         record_data, now, fault)
    IN  /\ redis' = r.redis
        /\ last' = [NoLast EXCEPT !.op = "check_limit", !.path = key, !.at = now,
                       !.fault = IF r.hit THEN [tier |-> "cache", op |-> fault]
                                 ELSE NoFault,
                       !.fault_hit = r.hit, !.outcome = r.res,
                       !.detail = record_type,
                       !.max_requests = max_requests,
                       !.window_seconds = window_seconds]
        /\ UNCHANGED <<activity_vars, legacy_vars, middleware_vars, now, user_ip_blacklist,
                       rate_limit_configs>>

\* what the decision key of the shared Redis may hold when check_limit reads
\* it: "A", "D:<block_until>" with any time, or a D entry whose time does not
\* parse as a float
CachedValues ==
    {Allowed} \cup {[prefix |-> "D", block_until |-> b, parses |-> TRUE] : b \in 0..(MaxTime + 1)}
              \cup {[prefix |-> "D", block_until |-> 0, parses |-> FALSE]}

\* a client of the same Redis sets the decision key
RedisSet(key, value, ex) ==
    /\ redis' = Put(redis, RATE_LIMIT_REDIS_PREFIX \o "check:" \o key,
                    [value |-> value, expire |-> now + ex])
    /\ last' = Idle
    /\ UNCHANGED <<activity_vars, legacy_vars, middleware_vars, now, user_ip_blacklist,
                   rate_limit_configs>>

BlacklistIp(ip, reason, duration_seconds) ==
    /\ redis' = blacklist_ip(redis, ip, reason, duration_seconds, now)
    /\ last' = Idle
    /\ UNCHANGED <<activity_vars, legacy_vars, middleware_vars, now, user_ip_blacklist,
                   rate_limit_configs>>

IsIpBlacklisted(ip) ==
    /\ last' = [NoLast EXCEPT !.op = "is_ip_blacklisted", !.ip = ip, !.at = now,
                   !.outcome = IF is_ip_blacklisted(redis, ip, now) THEN "blacklisted"
                               ELSE "not_blacklisted"]
    /\ UNCHANGED <<activity_vars, legacy_vars, middleware_vars, redis, now, user_ip_blacklist,
                   rate_limit_configs>>

\* ----------------------------------------------------------- administration
\* CRUDUserActivity.block_ip: one document per ip in user_ip_blacklist, replaced
\* when it exists.  No operation of the repository writes ip_blacklist.
BlockIp(ip_address, expires_at) ==
    /\ user_ip_blacklist' = {b \in user_ip_blacklist : b.ip # ip_address}
                            \cup {[ip |-> ip_address, expires_at |-> expires_at]}
    /\ last' = Idle
    /\ UNCHANGED <<activity_vars, redis, middleware_vars, now, rate_limits, violations, ip_blacklist, rate_limit_overrides,
                   rate_limit_configs>>

UnblockIp(ip_address) ==
    /\ \E b \in user_ip_blacklist : b.ip = ip_address
    /\ user_ip_blacklist' = {b \in user_ip_blacklist : b.ip # ip_address}
    /\ last' = Idle
    /\ UNCHANGED <<activity_vars, redis, middleware_vars, now, rate_limits, violations, ip_blacklist, rate_limit_overrides,
                   rate_limit_configs>>

\* CRUDUserActivity.check_ip_blacklisted: get_by_field("ip", ..) and nothing
\* else; a document found is the answer
check_ip_blacklisted(bl, ip_address) == \E b \in bl : b.ip = ip_address

CheckIpBlacklisted(ip_address) ==
    /\ last' = [NoLast EXCEPT !.op = "check_ip_blacklisted", !.ip = ip_address,
                   !.at = now,
                   !.outcome = IF check_ip_blacklisted(user_ip_blacklist, ip_address)
                               THEN "blacklisted" ELSE "not_blacklisted"]
    /\ UNCHANGED <<activity_vars, legacy_vars, middleware_vars, redis, now,
                   user_ip_blacklist, rate_limit_configs>>

\* (variant) an answer from the cache writes the entry again
is_ip_blacklisted_fetch_renewing(rd, bl, ip, t) ==
    IF is_ip_blacklisted(rd, ip, t)
    THEN [is_blacklisted |-> TRUE,
          redis |-> blacklist_ip(rd, ip, "Suspicious activity", IP_BLACKLIST_TTL, t),
          cached |-> TRUE]
    ELSE IF check_ip_blacklisted(bl, ip)
    THEN [is_blacklisted |-> TRUE,
          redis |-> blacklist_ip(rd, ip, "Suspicious activity", IP_BLACKLIST_TTL, t),
          cached |-> FALSE]
    ELSE [is_blacklisted |-> FALSE, redis |-> rd, cached |-> FALSE]

\* RateLimitService.is_ip_blacklisted with db_fetch_func: the two Redis keys
\* first; on a miss the fetch function answers, and a blacklisted answer is
\* cached by blacklist_ip for IP_BLACKLIST_TTL
is_ip_blacklisted_fetch(rd, bl, ip, t) ==
    IF is_ip_blacklisted(rd, ip, t)
    THEN [is_blacklisted |-> TRUE, redis |-> rd, cached |-> TRUE]
    ELSE IF check_ip_blacklisted(bl, ip)
    THEN [is_blacklisted |-> TRUE,
          redis |-> blacklist_ip(rd, ip, "Suspicious activity", IP_BLACKLIST_TTL, t),
          cached |-> FALSE]
    ELSE [is_blacklisted |-> FALSE, redis |-> rd, cached |-> FALSE]

IsIpBlacklistedFetch(ip) ==
    LET r == is_ip_blacklisted_fetch(redis, user_ip_blacklist, ip, now)
    IN  /\ redis' = r.redis
        /\ last' = [NoLast EXCEPT !.op = "is_ip_blacklisted", !.ip = ip, !.at = now,
                       !.detail = IF r.cached THEN "cached" ELSE "fetched",
                       !.outcome = IF r.is_blacklisted THEN "blacklisted"
                                   ELSE "not_blacklisted"]
        /\ UNCHANGED <<activity_vars, legacy_vars, middleware_vars, now,
                       user_ip_blacklist, rate_limit_configs>>

\* a fresh ObjectId: the smallest number no stored document carries
NewId(docs) == CHOOSE i \in 1..(Cardinality(docs) + 1) :
                   /\ \A d \in docs : d.id # i
                   /\ \A j \in 1..(i - 1) : \E d \in docs : d.id = j

create_user_override(ov, user_id, path, max_requests, window_seconds, expires_at) ==
    LET existing == FindOne({o \in ov : o.user_id = user_id /\ o.path = path})
        id == IF existing # {} THEN (CHOOSE o \in existing : TRUE).id ELSE NewId(ov)
    IN  {o \in ov : o.id # id}
        \cup {[id |-> id, user_id |-> user_id, path |-> path,
               max_requests |-> max_requests, window_seconds |-> window_seconds,
               expires_at |-> expires_at]}

CreateUserOverride(user_id, path, limits, expires_at) ==
    /\ rate_limit_overrides' = create_user_override(rate_limit_overrides, user_id, path,
                                   limits.max_requests, limits.window_seconds, expires_at)
    /\ last' = Idle
    /\ UNCHANGED <<activity_vars, redis, middleware_vars, now, rate_limits, violations, ip_blacklist, user_ip_blacklist,
                   rate_limit_configs>>

\* ---- create_user_override, one await at a time
\* the calls of create_user_override that are followed
MaxCreates == 2

\* the limits an administrator may give any pair
OverrideChoices == {OverrideLimits(p) : p \in OverridePaths}

\* insert_one into a collection without the index on (user_id, path)
insert_one_no_index(ov, doc) == [ov |-> ov \cup {doc}, raised |-> FALSE]

\* insert_one under Index("user_id", "path", unique=True): a second document
\* of a pair is refused with DuplicateKeyError
insert_one(ov, doc) ==
    IF \E o \in ov : o.user_id = doc.user_id /\ o.path = doc.path
    THEN [ov |-> ov, raised |-> TRUE]
    ELSE [ov |-> ov \cup {doc}, raised |-> FALSE]

\* update_one({"_id": ..}, {"$set": override_data}): the document of that
\* id, if it is still there
update_one(ov, id, doc) ==
    {IF o.id = id THEN [doc EXCEPT !.id = id] ELSE o : o \in ov}

\* the coroutine starts and its find_one answers
OverrideFetch(slot, user_id, path, limits, expires_at) ==
    /\ updates[slot].pc = "idle"
    /\ \A other \in 1..(slot - 1) : updates[other].pc # "idle"
    /\ updates' = [updates EXCEPT ![slot] =
           [pc |-> "fetched", user_id |-> user_id, path |-> path,
            max_requests |-> limits.max_requests,
            window_seconds |-> limits.window_seconds, expires_at |-> expires_at,
            fetched |-> FindOne({o \in rate_limit_overrides :
                                    o.user_id = user_id /\ o.path = path})]]
    /\ last' = Idle
    /\ UNCHANGED <<redis, legacy_vars, middleware_vars, now, user_ip_blacklist,
                   rate_limit_configs, user_security_profiles,
                   user_suspicious_activity>>

\* its update_one or its insert_one reaches the collection
OverrideWrite(slot) ==
    LET c == updates[slot]
        doc == [id |-> NewId(rate_limit_overrides), user_id |-> c.user_id,
                path |-> c.path, max_requests |-> c.max_requests,
                window_seconds |-> c.window_seconds, expires_at |-> c.expires_at]
        existing == CHOOSE o \in c.fetched : TRUE
        inserted == insert_one(rate_limit_overrides, doc)
    IN  /\ c.pc = "fetched"
        /\ rate_limit_overrides' =
               IF c.fetched # {}
               THEN update_one(rate_limit_overrides, existing.id, doc)
               ELSE inserted.ov
        /\ updates' = [updates EXCEPT ![slot].pc = "done", ![slot].fetched = {}]
        /\ last' = [NoLast EXCEPT !.op = "create_user_override", !.user = c.user_id,
                       !.path = c.path, !.at = now,
                       !.detail = IF c.fetched # {} THEN "update_one" ELSE "insert_one",
                       !.outcome = IF c.fetched = {} /\ inserted.raised
                                   THEN "raised" ELSE "returned",
                       !.max_requests = c.max_requests,
                       !.window_seconds = c.window_seconds]
        /\ UNCHANGED <<redis, middleware_vars, now, user_ip_blacklist, rate_limits,
                       violations, ip_blacklist, rate_limit_configs,
                       user_security_profiles, user_suspicious_activity>>

\* delete_override: delete_one by _id
DeleteOverride(id) ==
    /\ \E o \in rate_limit_overrides : o.id = id
    /\ rate_limit_overrides' = {o \in rate_limit_overrides : o.id # id}
    /\ last' = Idle
    /\ UNCHANGED <<activity_vars, redis, middleware_vars, now, rate_limits, violations,
                   ip_blacklist, user_ip_blacklist, rate_limit_configs>>

\* the entries a read at time t still honours (cached[1] > now)
Unexpired(dict, t) == [k \in {x \in DOMAIN dict : dict[x].expire > t} |-> dict[k]]

\* The clock advances.  Redis drops the keys whose expiry has been reached,
\* and the two in-process TTL caches are kept without such entries: no read
\* distinguishes them from none.
Tick(horizon) ==
    /\ now < horizon
    /\ now' = now + 1
    /\ RATE_LIMIT_CACHE' = Unexpired(RATE_LIMIT_CACHE, now + 1)
    /\ ENDPOINT_CONFIG_CACHE' = Unexpired(ENDPOINT_CONFIG_CACHE, now + 1)
    /\ redis' = Unexpired(redis, now + 1)
    /\ last' = Idle
    /\ UNCHANGED <<activity_vars, legacy_vars, user_ip_blacklist, rate_limit_configs, user_rate_limits,
                   user_activity, IP_BLACKLIST_CACHE, tasks>>

\* ------------------------------------------- the tier checks, called directly
TierFaults == {"none", "db", "query", "insert", "violation"}

Answer(name, client_ip, user_id, path, f, r) ==
    [NoLast EXCEPT !.op = name, !.ip = client_ip, !.user = user_id, !.path = path,
        !.at = now,
        !.fault = IF r.hit THEN [tier |-> r.trace[Len(r.trace)], op |-> f] ELSE NoFault,
        !.fault_hit = r.hit, !.checks = r.trace,
        !.denied_by = IF r.res = "deny" THEN r.trace[Len(r.trace)] ELSE "",
        !.outcome = r.res, !.max_requests = r.max_requests,
        !.window_seconds = r.window_seconds]

\* ---- _check_and_update_limit, one await at a time
\* the calls that have started and not yet returned
ChecksInFlight(u) == {slot \in DOMAIN u : u[slot].pc \in {"begun", "queried"}}

Exceeded_above(total_count, max_requests) == total_count > max_requests

\* if total_count >= max_requests
Exceeded(total_count, max_requests) == total_count >= max_requests

\* now = datetime.utcnow() is taken and the query sent; overlap is the number
\* of calls in flight once this one has started
LimitBegin(slot, ip) ==
    /\ updates[slot].pc = "idle"
    /\ \A other \in 1..(slot - 1) : updates[other].pc # "idle"
    /\ updates' = [updates EXCEPT ![slot] =
           [pc |-> "begun", ip |-> ip, key |-> IpKey(ip), at |-> now, total_count |-> 0,
            overlap |-> Cardinality(ChecksInFlight(updates)) + 1]]
    /\ last' = Idle
    /\ UNCHANGED <<redis, legacy_vars, middleware_vars, now, user_ip_blacklist,
                   rate_limit_configs, user_security_profiles,
                   user_suspicious_activity>>

\* the store answers the sum of the rows it holds at that moment, from the
\* window start the call computed when it began
LimitQuery(slot) ==
    /\ updates[slot].pc = "begun"
    /\ updates' = [updates EXCEPT ![slot].pc = "queried",
           ![slot].total_count = WindowCount(rate_limits, updates[slot].key,
                                     updates[slot].at - RATE_LIMIT_IP_WINDOW_SECONDS)]
    /\ last' = Idle
    /\ UNCHANGED <<redis, legacy_vars, middleware_vars, now, user_ip_blacklist,
                   rate_limit_configs, user_security_profiles,
                   user_suspicious_activity>>

\* the violation is recorded, or the row of this request inserted with the
\* time the call began as its window_start
LimitWrite(slot) ==
    LET c == updates[slot]
        denied == Exceeded(c.total_count, RATE_LIMIT_IP_MAX_REQUESTS)
    IN  /\ c.pc = "queried"
        /\ violations' = IF denied
                         THEN _record_violation(violations, c.key, "ip",
                                  RATE_LIMIT_IP_MAX_REQUESTS, c.total_count + 1, FALSE)
                         ELSE violations
        /\ rate_limits' = IF denied THEN rate_limits
                          ELSE rate_limits (+) SetToBag({[key |-> c.key, type |-> "ip",
                                                         window_start |-> c.at]})
        /\ updates' = [updates EXCEPT ![slot].pc = "done"]
        /\ last' = [NoLast EXCEPT !.op = "_check_and_update_limit", !.ip = c.ip,
                       !.at = c.at, !.outcome = IF denied THEN "deny" ELSE "allow",
                       !.max_requests = RATE_LIMIT_IP_MAX_REQUESTS,
                       !.window_seconds = RATE_LIMIT_IP_WINDOW_SECONDS]
        /\ UNCHANGED <<redis, middleware_vars, now, user_ip_blacklist, ip_blacklist,
                       rate_limit_overrides, rate_limit_configs,
                       user_security_profiles, user_suspicious_activity>>

CheckAndUpdateIpLimit(ip, f) ==
    LET r == check_and_update_ip_limit(ip_blacklist, rate_limit_overrides, rate_limits,
                 violations, ip, RATE_LIMIT_IP_MAX_REQUESTS,
                 RATE_LIMIT_IP_WINDOW_SECONDS, now, f)
    IN  /\ BagCardinality(r.vi) <= MaxIpViolations
        /\ rate_limits' = r.rl
        /\ violations' = r.vi
        /\ last' = Answer("check_and_update_ip_limit", ip, NoUser, "", f, r)
        /\ UNCHANGED <<activity_vars, redis, middleware_vars, now, ip_blacklist, user_ip_blacklist, rate_limit_overrides,
                       rate_limit_configs>>

CheckAndUpdateUserLimit(user_id, path, f) ==
    LET r == check_and_update_user_limit(rate_limit_overrides, rate_limits, violations,
                 user_id, path, RATE_LIMIT_USER_MAX_REQUESTS,
                 RATE_LIMIT_USER_WINDOW_SECONDS, now, f)
    IN  /\ BagCardinality(r.vi) <= MaxViolations
        /\ rate_limits' = r.rl
        /\ violations' = r.vi
        /\ rate_limit_overrides' = r.ov
        /\ last' = Answer("check_and_update_user_limit", "", user_id, path, f, r)
        /\ UNCHANGED <<activity_vars, redis, middleware_vars, now, ip_blacklist, user_ip_blacklist, rate_limit_configs>>

StatusFaults == {"none", "db", "query"}

GetUserLimitStatus(user_id, path, f) ==
    LET r == get_user_limit_status(rate_limit_overrides, rate_limits, user_id, path,
                 RATE_LIMIT_USER_MAX_REQUESTS, RATE_LIMIT_USER_WINDOW_SECONDS, now, f)
    IN  /\ rate_limit_overrides' = r.ov
        /\ last' = [NoLast EXCEPT !.op = "get_user_limit_status", !.user = user_id,
                       !.path = path, !.at = now,
                       !.fault = IF r.hit THEN [tier |-> "user", op |-> f] ELSE NoFault,
                       !.fault_hit = r.hit, !.outcome = "status",
                       !.max_requests = r.total_allowed,
                       !.window_seconds = r.window_seconds,
                       !.remaining = r.remaining]
        /\ UNCHANGED <<activity_vars, redis, middleware_vars, now, rate_limits, violations, ip_blacklist, user_ip_blacklist,
                       rate_limit_configs>>

\* ---- GET /user/rate-limits
\* the parameters get_user_limit_status declares, none with a default
get_user_limit_status_parameters ==
    {"db", "clickhouse_db", "user_id", "path", "max_requests", "window_seconds"}

\* a call binds when it names declared parameters only and every required one
Binds(required, parameters, keywords) ==
    keywords \subseteq parameters /\ required \subseteq keywords

\* the route: the overall status is asked for path "*" with user_id, path,
\* max_requests and window_seconds; the call is outside any try, so a call
\* that does not bind ends the request with the TypeError.  The statuses of
\* the configured endpoints are asked the same way after it.
get_rate_limit_status(ov, rl, user_id, t) ==
    LET keywords == {"user_id", "path", "max_requests", "window_seconds"}
        api == get_user_limit_status(ov, rl, user_id, "*", RATE_LIMIT_USER_MAX_REQUESTS,
                                     RATE_LIMIT_USER_WINDOW_SECONDS, t, "none")
    IN  IF ~Binds(get_user_limit_status_parameters, get_user_limit_status_parameters, keywords)
        THEN [status |-> 500, total_allowed |-> 0, remaining |-> 0,
              window_seconds |-> 0, ov |-> ov]
        ELSE [status |-> 200, total_allowed |-> api.total_allowed,
              remaining |-> api.remaining, window_seconds |-> api.window_seconds,
              ov |-> api.ov]

GetRateLimitStatus(user_id) ==
    LET r == get_rate_limit_status(rate_limit_overrides, rate_limits, user_id, now)
    IN  /\ rate_limit_overrides' = r.ov
        /\ last' = [NoLast EXCEPT !.op = "get_rate_limit_status", !.user = user_id,
                       !.path = "*", !.at = now,
                       !.outcome = IF r.status = 200 THEN "status" ELSE "raised",
                       !.status = r.status, !.max_requests = r.total_allowed,
                       !.window_seconds = r.window_seconds,
                       !.remaining = r.remaining]
        /\ UNCHANGED <<activity_vars, redis, middleware_vars, now, rate_limits, violations, ip_blacklist, user_ip_blacklist, rate_limit_configs>>

\* ------------------------------------------------------------ specification
\* the global default the data migration seeds from the user settings
\* ------------------------------------------ endpoint configurations (admin)
\* endpoints an administrator configures, after the seeded "/api/v1/users*"
ConfigEndpoints == {"*", API_V1_STR \o "/users*", API_V1_STR \o "/users/special",
                    API_V1_STR \o "/users"}
ConfigPaths == {API_V1_STR \o "/users/special", API_V1_STR \o "/users/7",
                API_V1_STR \o "/users", "/other"}
ConfigMaxRequests == {1, 2}

\* create_rate_limit_config: one document per endpoint, updated when it exists
CreateRateLimitConfig(endpoint, max_requests, window_seconds, active) ==
    /\ rate_limit_configs' = {c \in rate_limit_configs : c.endpoint # endpoint}
           \cup {[endpoint |-> endpoint, max_requests |-> max_requests,
                  window_seconds |-> window_seconds, active |-> active]}
    /\ last' = Idle
    /\ UNCHANGED <<activity_vars, redis, middleware_vars, legacy_vars, now, user_ip_blacklist>>

\* delete_rate_limit_config: the document of one endpoint (found by its _id)
DeleteRateLimitConfig(endpoint) ==
    /\ \E c \in rate_limit_configs : c.endpoint = endpoint
    /\ rate_limit_configs' = {c \in rate_limit_configs : c.endpoint # endpoint}
    /\ last' = Idle
    /\ UNCHANGED <<activity_vars, redis, middleware_vars, legacy_vars, now, user_ip_blacklist>>

\* ---- deleting by identifier
\* the identifier strings an administrator may send: the hexadecimal form of
\* a stored or an unused ObjectId, or text that is not one
IdStrings == {"1", "2", "3", "4", "5", "zz"}

\* ObjectId(text): the identifier a well-formed string stands for; outside
\* its domain the constructor raises InvalidId
ObjectId == ("1" :> 1 @@ "2" :> 2 @@ "3" :> 3 @@ "4" :> 4 @@ "5" :> 5)

\* the _id under which the document of an endpoint is stored
ConfigId == ("*" :> 1 @@ (API_V1_STR \o "/users*") :> 2 @@ (API_V1_STR \o "/users/special") :> 3 @@ (API_V1_STR \o "/users") :> 4 @@ LimitedPath :> 5)

\* the bare except answers every failure of ObjectId(...) with False
delete_override(ov, override_id) ==
    IF override_id \notin DOMAIN ObjectId
    THEN [ov |-> ov, result |-> FALSE]
    ELSE [ov |-> {o \in ov : o.id # ObjectId[override_id]},
          result |-> \E o \in ov : o.id = ObjectId[override_id]]

delete_rate_limit_config(configs, config_id) ==
    IF config_id \notin DOMAIN ObjectId
    THEN [configs |-> configs, result |-> FALSE]
    ELSE [configs |-> {c \in configs : ConfigId[c.endpoint] # ObjectId[config_id]},
          result |-> \E c \in configs : ConfigId[c.endpoint] = ObjectId[config_id]]

delete_override_parameters == {"db", "override_id"}
delete_rate_limit_config_parameters == {"db", "config_id"}

\* the admin routes: one keyword, the identifier; a call that does not bind
\* ends the request with its TypeError, a False answer becomes the 404
admin_delete_rate_limit_override(ov, override_id) ==
    LET r == delete_override(ov, override_id)
    IN  IF ~Binds(delete_override_parameters, delete_override_parameters, {"override_id"})
        THEN [ov |-> ov, status |-> 500]
        ELSE [ov |-> r.ov, status |-> IF r.result THEN 200 ELSE 404]

admin_delete_rate_limit_config(configs, config_id) ==
    LET r == delete_rate_limit_config(configs, config_id)
    IN  IF ~Binds(delete_rate_limit_config_parameters, delete_rate_limit_config_parameters, {"config_id"})
        THEN [configs |-> configs, status |-> 500]
        ELSE [configs |-> r.configs, status |-> IF r.result THEN 200 ELSE 404]

DeleteOverrideById(override_id) ==
    LET r == delete_override(rate_limit_overrides, override_id)
    IN  /\ rate_limit_overrides' = r.ov
        /\ last' = [NoLast EXCEPT !.op = "delete_override", !.detail = override_id,
                       !.at = now,
                       !.outcome = IF r.result THEN "true" ELSE "false"]
        /\ UNCHANGED <<activity_vars, redis, middleware_vars, now, rate_limits, violations,
                       ip_blacklist, user_ip_blacklist, rate_limit_configs>>

DeleteRateLimitConfigById(config_id) ==
    LET r == delete_rate_limit_config(rate_limit_configs, config_id)
    IN  /\ rate_limit_configs' = r.configs
        /\ last' = [NoLast EXCEPT !.op = "delete_rate_limit_config",
                       !.detail = config_id, !.at = now,
                       !.outcome = IF r.result THEN "true" ELSE "false"]
        /\ UNCHANGED <<activity_vars, redis, middleware_vars, legacy_vars, now,
                       user_ip_blacklist>>

AdminDeleteRateLimitOverride(override_id) ==
    LET r == admin_delete_rate_limit_override(rate_limit_overrides, override_id)
    IN  /\ rate_limit_overrides' = r.ov
        /\ last' = [NoLast EXCEPT !.op = "admin_delete_rate_limit_override",
                       !.detail = override_id, !.at = now, !.status = r.status,
                       !.outcome = IF r.status = 500 THEN "raised" ELSE "answered"]
        /\ UNCHANGED <<activity_vars, redis, middleware_vars, now, rate_limits, violations,
                       ip_blacklist, user_ip_blacklist, rate_limit_configs>>

AdminDeleteRateLimitConfig(config_id) ==
    LET r == admin_delete_rate_limit_config(rate_limit_configs, config_id)
    IN  /\ rate_limit_configs' = r.configs
        /\ last' = [NoLast EXCEPT !.op = "admin_delete_rate_limit_config",
                       !.detail = config_id, !.at = now, !.status = r.status,
                       !.outcome = IF r.status = 500 THEN "raised" ELSE "answered"]
        /\ UNCHANGED <<activity_vars, redis, middleware_vars, legacy_vars, now,
                       user_ip_blacklist>>

\* a caller looks the configuration of a path up
GetRateLimitConfig(endpoint, failing) ==
    LET config == get_rate_limit_config(rate_limit_configs, endpoint, failing)
    IN  /\ last' = [NoLast EXCEPT
                       !.op = "get_rate_limit_config", !.path = endpoint, !.at = now,
                       !.fault_hit = failing,
                       !.outcome = IF config = {} THEN "none" ELSE "found",
                       !.detail = IF config = {} THEN ""
                                  ELSE (CHOOSE c \in config : TRUE).endpoint,
                       !.max_requests = IF config = {} THEN 0
                                        ELSE (CHOOSE c \in config : TRUE).max_requests]
        /\ UNCHANGED <<activity_vars, redis, middleware_vars, legacy_vars, now, user_ip_blacklist,
                       rate_limit_configs>>

\* -------------------------------------------------- activity recording
IsWildcard(pattern) ==
    Len(pattern) >= 1 /\ SubSeq(pattern, Len(pattern), Len(pattern)) = "*"

\* the pattern of a configuration matches the path: the pattern itself, or
\* what precedes its final "*" as a prefix
Matches(pattern, path) ==
    \/ pattern = path
    \/ IsWildcard(pattern) /\ startswith(path, SubSeq(pattern, 1, Len(pattern) - 1))

\* The requests whose activity is recorded.  The recording is reached through
\* the API request consumer; ActivityTrackingMiddleware's own calls pass db=
\* and clickhouse_db=, which create_activity and check_suspicious_activity do
\* not take, and the TypeError ends in the tracker's except.
ClientIps == {"a", "b"}
UserAgents == {"ua1", "ua2"}
StatusCodes == {200, 401}
API_ADMIN_STR == "/admin"
\* a path no sensitive pattern matches, and one the second pattern matches
UsersPath == API_V1_STR \o "/users"
ActivityPaths == {UsersPath, API_V1_STR \o "/users/7"}

\* timedelta(hours=24), in ticks of twelve hours
RecentWindow == 2
SECURITY_MAX_UNIQUE_IPS_PER_DAY == 1

sensitive_paths == <<API_V1_STR \o "/login/*", API_V1_STR \o "/users/*",
                     API_V1_STR \o API_ADMIN_STR \o "/*">>

\* the index of the first sensitive pattern the path matches, 0 when none does
FirstSensitive(path) ==
    IF \E i \in DOMAIN sensitive_paths : Matches(sensitive_paths[i], path)
    THEN CHOOSE i \in DOMAIN sensitive_paths :
             /\ Matches(sensitive_paths[i], path)
             /\ \A j \in 1..(i - 1) : ~Matches(sensitive_paths[j], path)
    ELSE 0

\* str.lower() on the ASCII letters
ToLower ==
    ("A" :> "a") @@ ("B" :> "b") @@ ("C" :> "c") @@ ("D" :> "d") @@ ("E" :> "e") @@ ("F" :> "f") @@
    ("G" :> "g") @@ ("H" :> "h") @@ ("I" :> "i") @@ ("J" :> "j") @@ ("K" :> "k") @@ ("L" :> "l") @@
    ("M" :> "m") @@ ("N" :> "n") @@ ("O" :> "o") @@ ("P" :> "p") @@ ("Q" :> "q") @@ ("R" :> "r") @@
    ("S" :> "s") @@ ("T" :> "t") @@ ("U" :> "u") @@ ("V" :> "v") @@ ("W" :> "w") @@ ("X" :> "x") @@
    ("Y" :> "y") @@ ("Z" :> "z")

Lower(c) == IF c \in DOMAIN ToLower THEN ToLower[c] ELSE c

RECURSIVE lower(_)
lower(s) ==
    IF Len(s) <= 1 THEN Lower(s)
    ELSE LET half == Len(s) \div 2
         IN  lower(SubSeq(s, 1, half)) \o lower(SubSeq(s, half + 1, Len(s)))

\* keyword in s
Contains(s, keyword) ==
    \E i \in 1..(Len(s) - Len(keyword) + 1) : SubSeq(s, i, i + Len(keyword) - 1) = keyword

high_severity_keywords == {"password", "auth", "login", "token", "multiple", "admin"}
low_severity_keywords == {"new device", "different location", "unusual time"}

\* the low keywords looked for first
severity_low_first(reason) ==
    IF \E keyword \in low_severity_keywords : Contains(lower(reason), keyword)
    THEN "low"
    ELSE IF \E keyword \in high_severity_keywords : Contains(lower(reason), keyword)
         THEN "high"
         ELSE "medium"

\* the severity create_suspicious_activity_log derives from the reason
severity(reason) ==
    IF \E keyword \in high_severity_keywords : Contains(lower(reason), keyword)
    THEN "high"
    ELSE IF \E keyword \in low_severity_keywords : Contains(lower(reason), keyword)
         THEN "low"
         ELSE "medium"

\* the reasons handed to create_suspicious_activity_log: those the module
\* writes, those of the examples, and every keyword in two spellings, alone
\* and before a word that holds none
ReasonTails == {"", " detected"}
ReasonWords ==
    high_severity_keywords \cup low_severity_keywords
    \cup {"Password", "AUTH", "Login", "TOKEN", "Multiple", "ADMIN", "New Device",
          "Different Location", "UNUSUAL TIME", "new  device", "device", "unusual",
          "different", "location", "", "new device login", "Admin New Device"}
Reasons ==
    {w \o t : w \in ReasonWords, t \in ReasonTails}
    \cup {"Too many different IPs used in a short time",
          "Failed access attempt to sensitive endpoint"}
    \cup {"New device accessed sensitive endpoint: " \o sensitive_paths[i] :
              i \in DOMAIN sensitive_paths}

\* the severity of each of those reasons, computed once
Severities == [reason \in Reasons |-> severity(reason)]

\* One row of user_suspicious_activity.  A failing insert is logged and the
\* caller is told nothing.
create_suspicious_activity_log(sus, user_id, client_ip, user_agent, reason, path, status_code, failing) ==
    IF failing
    THEN sus
    ELSE sus (+) SetToBag({
             [user_id |-> IF user_id = NoUser THEN client_ip \o "#" \o user_agent
                          ELSE user_id,
              client_ip |-> client_ip, user_agent |-> user_agent, path |-> path,
              status_code |-> status_code,
              severity |-> IF reason \in DOMAIN Severities THEN Severities[reason]
                           ELSE severity(reason),
              details |-> reason]})

\* security_profiles.get_by_field("user_id", user_id): the document found, as
\* a set of at most one
FetchProfile(profiles, user_id) ==
    LET found == {p \in profiles : p.user_id = user_id}
    IN  IF found = {} THEN {}
        ELSE {CHOOSE p \in found : \A q \in found : p.id <= q.id}

KnownFingerprint(profile, client_ip, user_agent) ==
    \E i \in DOMAIN profile.known_fingerprints :
        /\ profile.known_fingerprints[i].ip = client_ip
        /\ profile.known_fingerprints[i].user_agent = user_agent

ClientFingerprint(client_ip, user_agent) ==
    [ip |-> client_ip, user_agent |-> user_agent, request_count |-> 1]

\* security_profiles.update(document, data): the stored document of that id
\* is replaced by the caller's copy, field by field
UpdateProfile(profiles, document) ==
    {p \in profiles : p.id # document.id} \cup {document}

\* the fingerprint appended whether or not the pair is known
WriteProfile_always_append(profiles, fetched, user_id, client_ip, user_agent) ==
    IF fetched = {}
    THEN profiles \cup
             {[id |-> NewId(profiles), user_id |-> user_id,
               known_fingerprints |-> <<ClientFingerprint(client_ip, user_agent)>>,
               suspicious_activity_count |-> 0]}
    ELSE LET security_profile == CHOOSE p \in fetched : TRUE
         IN  UpdateProfile(profiles,
                 [security_profile EXCEPT !.known_fingerprints =
                      Append(@, ClientFingerprint(client_ip, user_agent))])

\* what _update_user_security_profile does with the document it fetched: a
\* new profile when none was found, otherwise the caller's copy with the
\* fingerprint counted or appended, written back whole
WriteProfile(profiles, fetched, user_id, client_ip, user_agent) ==
    IF fetched = {}
    THEN profiles \cup
             {[id |-> NewId(profiles), user_id |-> user_id,
               known_fingerprints |-> <<ClientFingerprint(client_ip, user_agent)>>,
               suspicious_activity_count |-> 0]}
    ELSE LET security_profile == CHOOSE p \in fetched : TRUE
             fps == security_profile.known_fingerprints
             mutated ==
                 IF KnownFingerprint(security_profile, client_ip, user_agent)
                 THEN LET i == CHOOSE i \in DOMAIN fps :
                                   /\ fps[i].ip = client_ip
                                   /\ fps[i].user_agent = user_agent
                                   /\ \A j \in 1..(i - 1) :
                                          ~(fps[j].ip = client_ip
                                            /\ fps[j].user_agent = user_agent)
                      IN  [fps EXCEPT ![i].request_count = @ + 1]
                 ELSE Append(fps, ClientFingerprint(client_ip, user_agent))
         IN  UpdateProfile(profiles,
                           [security_profile EXCEPT !.known_fingerprints = mutated])

\* the whole coroutine, run without another one in between
_update_user_security_profile(profiles, user_id, client_ip, user_agent) ==
    WriteProfile(profiles, FetchProfile(profiles, user_id), user_id, client_ip,
                 user_agent)

\* what raises while one request is recorded and evaluated: the insert into
\* user_activity alone, every call of the activity store (the insert and the
\* query), every call of the profile collection, the insert into
\* user_suspicious_activity
ActivityFaults == {"none", "insert", "activity", "profile", "log"}

\* create_activity: the row, then the profile of an authenticated user.  A
\* failing insert ends the call before the profile is touched, a failing
\* profile collection after the row is written; either way the except of
\* create_activity answers False.  Of the row, the columns that say who sent
\* the request and when are kept.
create_activity(activity, profiles, user_id, path, client_ip, user_agent, t, fault) ==
    LET is_authenticated == user_id # NoUser
        effective_user_id == IF is_authenticated THEN user_id
                             ELSE "anon-" \o client_ip
        inserted == activity (+) SetToBag({
                        [client_ip |-> client_ip, user_id |-> effective_user_id,
                         user_agent |-> user_agent, timestamp |-> t]})
    IN  IF fault \in {"insert", "activity"}
        THEN [ok |-> FALSE, activity |-> activity, profiles |-> profiles]
        ELSE IF is_authenticated /\ fault = "profile"
             THEN [ok |-> FALSE, activity |-> inserted, profiles |-> profiles]
             ELSE [ok |-> TRUE, activity |-> inserted,
                   profiles |-> IF is_authenticated
                                THEN _update_user_security_profile(
                                         profiles, effective_user_id, client_ip,
                                         user_agent)
                                ELSE profiles]

\* SELECT DISTINCT client_ip FROM user_activity WHERE user_id = .. AND
\* timestamp > recent_time
RecentIps(activity, user_id, t) ==
    {r.client_ip : r \in {x \in BagToSet(activity) :
                              x.user_id = user_id /\ x.timestamp > t - RecentWindow}}

\* the sensitive-path trigger kept for pairs the profile does not know
SensitiveTrigger_unknown_only(user_id, fetched, client_ip, user_agent, i) ==
    /\ user_id # NoUser
    /\ i # 0
    /\ \A p \in fetched : ~KnownFingerprint(p, client_ip, user_agent)

\* the sensitive-path trigger: any authenticated request whose path matches
\* the i-th pattern, whatever the profile fetched holds
SensitiveTrigger(user_id, fetched, client_ip, user_agent, i) ==
    user_id # NoUser /\ i # 0

\* a profile is enough: the pair is never looked up
UnknownFingerprint_any(fetched, client_ip, user_agent) == fetched # {}

\* the user has a profile and no entry of known_fingerprints carries the pair
UnknownFingerprint(fetched, client_ip, user_agent) ==
    /\ fetched # {}
    /\ \A p \in fetched : ~KnownFingerprint(p, client_ip, user_agent)

\* the three triggers always silent
check_suspicious_activity_silent(profiles, activity, sus, user_id, client_ip, user_agent, path, status_code, t, fault) ==
    [result |-> FALSE, profiles |-> profiles, sus |-> sus, diversity |-> FALSE,
     raised |-> FALSE]

\* check_suspicious_activity: the three triggers in the order of the code.
\* It has no try of its own: get_by_field and the query raise to the caller
\* before anything is written, while a failing insert of a log row is
\* swallowed by create_suspicious_activity_log.
check_suspicious_activity(profiles, activity, sus, user_id, client_ip, user_agent, path, status_code, t, fault) ==
    LET fetched == IF user_id # NoUser THEN FetchProfile(profiles, user_id) ELSE {}
        unknown == UnknownFingerprint(fetched, client_ip, user_agent)
        raised == \/ user_id # NoUser /\ fault = "profile"
                  \/ unknown /\ fault = "activity"
        diversity ==
            /\ unknown
            /\ Cardinality(RecentIps(activity, user_id, t))
                   > SECURITY_MAX_UNIQUE_IPS_PER_DAY
        profiles1 ==
            IF diversity
            THEN LET p == CHOOSE p \in fetched : TRUE
                 IN  UpdateProfile(profiles,
                         [p EXCEPT !.suspicious_activity_count = @ + 1])
            ELSE profiles
        sus1 == IF diversity
                THEN create_suspicious_activity_log(
                         sus, user_id, client_ip, user_agent,
                         "Too many different IPs used in a short time",
                         path, status_code, fault = "log")
                ELSE sus
        i == FirstSensitive(path)
        sensitive == SensitiveTrigger(user_id, fetched, client_ip, user_agent, i)
        sus2 == IF sensitive
                THEN create_suspicious_activity_log(
                         sus1, user_id, client_ip, user_agent,
                         "New device accessed sensitive endpoint: " \o sensitive_paths[i],
                         path, status_code, fault = "log")
                ELSE sus1
        failed == status_code >= 400 /\ i # 0
        sus3 == IF failed
                THEN create_suspicious_activity_log(
                         sus2, user_id, client_ip, user_agent,
                         "Failed access attempt to sensitive endpoint",
                         path, status_code, fault = "log")
                ELSE sus2
    IN  IF raised
        THEN [result |-> FALSE, profiles |-> profiles, sus |-> sus,
              diversity |-> FALSE, raised |-> TRUE]
        ELSE [result |-> diversity \/ sensitive \/ failed, profiles |-> profiles1,
              sus |-> sus3, diversity |-> diversity, raised |-> FALSE]

\* what an activity operation leaves to observe
ActivityLast == [user_agent |-> "", recorded |-> FALSE, suspicious |-> FALSE,
                 diversity |-> FALSE, store_fault |-> "none", escaped |-> FALSE]
                @@ NoLast

PayloadUsers == Users \cup {NoUser, "anon-a"}

\* the body of the handler with its except taken away
handle_api_request_event_no_except(activity, profiles, sus, payload_user_id, remote_ip, user_agent, path, status_code, t, fault) ==
    LET user_id == IF payload_user_id # "" /\ ~startswith(payload_user_id, "anon-")
                   THEN payload_user_id ELSE NoUser
        c == create_activity(activity, profiles, user_id, path, remote_ip,
                             user_agent, t, fault)
        s == check_suspicious_activity(c.profiles, c.activity, sus, user_id,
                                       remote_ip, user_agent, path, status_code, t,
                                       fault)
    IN  [user_id |-> user_id, recorded |-> c.ok, activity |-> c.activity,
         profiles |-> s.profiles, sus |-> s.sus, suspicious |-> s.result,
         diversity |-> s.diversity, caught |-> FALSE, escaped |-> s.raised]

\* handle_api_request_event: the request is recorded and then evaluated, the
\* whole in one try whose except logs what either call raised
handle_api_request_event(activity, profiles, sus, payload_user_id, remote_ip, user_agent, path, status_code, t, fault) ==
    LET user_id == IF payload_user_id # "" /\ ~startswith(payload_user_id, "anon-")
                   THEN payload_user_id ELSE NoUser
        c == create_activity(activity, profiles, user_id, path, remote_ip,
                             user_agent, t, fault)
        s == check_suspicious_activity(c.profiles, c.activity, sus, user_id,
                                       remote_ip, user_agent, path, status_code, t,
                                       fault)
    IN  [user_id |-> user_id, recorded |-> c.ok, activity |-> c.activity,
         profiles |-> s.profiles, sus |-> s.sus, suspicious |-> s.result,
         diversity |-> s.diversity, caught |-> s.raised, escaped |-> FALSE]

\* one event of the API request topic
HandleApiRequestEvent(payload_user_id, remote_ip, user_agent, path, status_code, fault) ==
    LET h == handle_api_request_event(user_activity, user_security_profiles,
                                      user_suspicious_activity, payload_user_id,
                                      remote_ip, user_agent, path, status_code, now,
                                      fault)
    IN  /\ BagCardinality(h.activity) <= MaxActivity
        /\ BagCardinality(h.sus) <= MaxSuspicious
        /\ user_activity' = h.activity
        /\ user_security_profiles' = h.profiles
        /\ user_suspicious_activity' = h.sus
        /\ last' = [ActivityLast EXCEPT !.op = "handle_api_request_event",
                       !.ip = remote_ip, !.user = h.user_id, !.path = path,
                       !.at = now, !.status = status_code,
                       !.user_agent = user_agent, !.recorded = h.recorded,
                       !.fault_hit = fault # "none", !.store_fault = fault,
                       !.suspicious = h.suspicious, !.diversity = h.diversity,
                       !.outcome = IF h.caught THEN "caught" ELSE "returned",
                       !.escaped = h.escaped]
        /\ UNCHANGED <<redis, legacy_vars, now, user_ip_blacklist, rate_limit_configs,
                       user_rate_limits, RATE_LIMIT_CACHE, ENDPOINT_CONFIG_CACHE,
                       IP_BLACKLIST_CACHE, tasks, updates>>

\* check_suspicious_activity called on a request of the caller's
CheckSuspiciousActivity(user_id, client_ip, user_agent, path, status_code) ==
    LET r == check_suspicious_activity(user_security_profiles, user_activity,
                                       user_suspicious_activity, user_id, client_ip,
                                       user_agent, path, status_code, now, "none")
    IN  /\ BagCardinality(r.sus) <= MaxSuspicious
        /\ user_security_profiles' = r.profiles
        /\ user_suspicious_activity' = r.sus
        /\ last' = [ActivityLast EXCEPT !.op = "check_suspicious_activity",
                       !.ip = client_ip, !.user = user_id, !.path = path,
                       !.at = now, !.status = status_code,
                       !.user_agent = user_agent, !.suspicious = r.result,
                       !.diversity = r.diversity]
        /\ UNCHANGED <<redis, legacy_vars, middleware_vars, now, user_ip_blacklist,
                       rate_limit_configs, updates>>

\* ---- _update_user_security_profile, one await at a time
NoUpdate == [pc |-> "idle", user_id |-> NoUser, client_ip |-> "", user_agent |-> "",
             fetched |-> {}]

\* the coroutine starts and its get_by_field answers
UpdateFetch(slot, user_id, client_ip, user_agent) ==
    /\ updates[slot].pc = "idle"
    /\ \A other \in 1..(slot - 1) : updates[other].pc # "idle"
    /\ updates' = [updates EXCEPT ![slot] =
           [pc |-> "fetched", user_id |-> user_id, client_ip |-> client_ip,
            user_agent |-> user_agent,
            fetched |-> FetchProfile(user_security_profiles, user_id)]]
    /\ last' = Idle
    /\ UNCHANGED <<redis, legacy_vars, middleware_vars, now, user_ip_blacklist,
                   rate_limit_configs, user_security_profiles,
                   user_suspicious_activity>>

\* its create or its update reaches the collection
UpdateWrite(slot) ==
    /\ updates[slot].pc = "fetched"
    /\ user_security_profiles' =
           WriteProfile(user_security_profiles, updates[slot].fetched,
                        updates[slot].user_id, updates[slot].client_ip,
                        updates[slot].user_agent)
    /\ updates' = [updates EXCEPT ![slot].pc = "done", ![slot].fetched = {}]
    /\ last' = Idle
    /\ UNCHANGED <<redis, legacy_vars, middleware_vars, now, user_ip_blacklist,
                   rate_limit_configs, user_suspicious_activity>>

\* create_suspicious_activity_log called with a reason of the caller's
CreateSuspiciousActivityLog(user_id, client_ip, user_agent, reason, path, status_code, failing) ==
    /\ BagCardinality(user_suspicious_activity) < MaxLogs
    /\ user_suspicious_activity' =
           create_suspicious_activity_log(user_suspicious_activity, user_id,
                                          client_ip, user_agent, reason, path,
                                          status_code, failing)
    /\ last' = [ActivityLast EXCEPT !.op = "create_suspicious_activity_log",
                   !.ip = client_ip, !.user = user_id, !.path = path,
                   !.status = status_code, !.user_agent = user_agent,
                   !.detail = reason, !.fault_hit = failing]
    /\ UNCHANGED <<redis, legacy_vars, middleware_vars, now, user_ip_blacklist,
                   rate_limit_configs, user_security_profiles, updates>>

\* ---- ActivityTrackingMiddleware
TrackerPaths == {"/test", "/metrics", "/health", LimitedPath}

\* the user the tracker reads from the authorization header
TrackerUser(auth_header) ==
    IF auth_header # "" /\ startswith(auth_header, "Bearer ")
    THEN TokenSub(SubSeq(auth_header, Len("Bearer ") + 1, Len(auth_header)))
    ELSE NoUser

\* the coroutine the tracker hands to asyncio.create_task
RecordActivityTask(user_id, path, client_ip, user_agent, status_code) ==
    [name |-> "_record_activity", user_id |-> user_id, path |-> path,
     client_ip |-> client_ip, user_agent |-> user_agent, status_code |-> status_code]

\* the tracker scheduling a task for every path that is not skipped
tracker_dispatch_every_path(tk, path, client_ip, user_agent, auth_header, status_code) ==
    IF path \in ExemptPaths
    THEN [status |-> status_code, tasks |-> tk, scheduled |-> FALSE]
    ELSE [status |-> status_code,
          tasks |-> tk (+) SetToBag({RecordActivityTask(
                        TrackerUser(auth_header), path, client_ip, user_agent,
                        status_code)}),
          scheduled |-> TRUE]

\* ActivityTrackingMiddleware.dispatch: the answer of the application is
\* returned as it came; a path that is not skipped and starts with
\* API_V1_STR has its task scheduled after the answer is there
tracker_dispatch(tk, path, client_ip, user_agent, auth_header, status_code) ==
    IF path \in ExemptPaths
    THEN [status |-> status_code, tasks |-> tk, scheduled |-> FALSE]
    ELSE IF startswith(path, API_V1_STR)
         THEN [status |-> status_code,
               tasks |-> tk (+) SetToBag({RecordActivityTask(
                             TrackerUser(auth_header), path, client_ip, user_agent,
                             status_code)}),
               scheduled |-> TRUE]
         ELSE [status |-> status_code, tasks |-> tk, scheduled |-> FALSE]

TrackerDispatch(path, client_ip, user_agent, auth_header, status_code) ==
    LET r == tracker_dispatch(tasks, path, client_ip, user_agent, auth_header,
                              status_code)
    IN  /\ BagCardinality(r.tasks) <= MaxTasks
        /\ tasks' = r.tasks
        /\ last' = [ActivityLast EXCEPT !.op = "tracker_dispatch", !.ip = client_ip,
                       !.user = TrackerUser(auth_header), !.path = path, !.at = now,
                       !.status = r.status, !.user_agent = user_agent,
                       !.outcome = IF r.scheduled THEN "scheduled" ELSE "skipped"]
        /\ UNCHANGED <<activity_vars, redis, legacy_vars, now, user_ip_blacklist,
                       rate_limit_configs, user_rate_limits, user_activity,
                       RATE_LIMIT_CACHE, ENDPOINT_CONFIG_CACHE, IP_BLACKLIST_CACHE>>

\* the keyword parameters the two methods declare, and those the tracker
\* passes them; a keyword that is not declared raises TypeError at the call
create_activity_parameters ==
    {"user_id", "path", "method", "client_ip", "user_agent", "status_code",
     "process_time"}
check_suspicious_activity_parameters ==
    {"user_id", "client_ip", "user_agent", "path", "method", "status_code"}
Accepts(parameters, keywords) == keywords \subseteq parameters

\* _record_activity: the database handle, create_activity and
\* _check_suspicious_activity in one try whose except logs; the inner method
\* has a try of its own
_record_activity(activity, profiles, sus, task, t, fault) ==
    LET unchanged == [activity |-> activity, profiles |-> profiles, sus |-> sus,
                      recorded |-> FALSE, suspicious |-> FALSE, caught |-> TRUE,
                      escaped |-> FALSE]
        c == create_activity(activity, profiles, task.user_id, task.path,
                             task.client_ip, task.user_agent, t, fault)
        s == check_suspicious_activity(c.profiles, c.activity, sus, task.user_id,
                                       task.client_ip, task.user_agent, task.path,
                                       task.status_code, t, fault)
    IN  IF fault = "db"
        THEN unchanged
        ELSE IF ~Accepts(create_activity_parameters,
                         create_activity_parameters \cup {"db"})
             THEN unchanged
             ELSE IF ~Accepts(check_suspicious_activity_parameters,
                              check_suspicious_activity_parameters
                              \cup {"clickhouse_db"})
                     \/ s.raised
                  THEN [activity |-> c.activity, profiles |-> c.profiles,
                        sus |-> sus, recorded |-> c.ok, suspicious |-> FALSE,
                        caught |-> TRUE, escaped |-> FALSE]
                  ELSE [activity |-> c.activity, profiles |-> s.profiles,
                        sus |-> s.sus, recorded |-> c.ok, suspicious |-> s.result,
                        caught |-> FALSE, escaped |-> FALSE]

\* the event loop runs one scheduled _record_activity
RecordActivity(task, fault) ==
    LET r == _record_activity(user_activity, user_security_profiles,
                              user_suspicious_activity, task, now, fault)
    IN  /\ BagIn(task, tasks)
        /\ task.name = "_record_activity"
        /\ BagCardinality(r.activity) <= MaxActivity
        /\ BagCardinality(r.sus) <= MaxSuspicious
        /\ tasks' = tasks (-) SetToBag({task})
        /\ user_activity' = r.activity
        /\ user_security_profiles' = r.profiles
        /\ user_suspicious_activity' = r.sus
        /\ last' = [ActivityLast EXCEPT !.op = "_record_activity",
                       !.ip = task.client_ip, !.user = task.user_id,
                       !.path = task.path, !.at = now, !.status = task.status_code,
                       !.user_agent = task.user_agent, !.recorded = r.recorded,
                       !.fault_hit = fault # "none", !.store_fault = fault,
                       !.suspicious = r.suspicious,
                       !.outcome = IF r.caught THEN "caught" ELSE "returned",
                       !.escaped = r.escaped]
        /\ UNCHANGED <<redis, legacy_vars, now, user_ip_blacklist, rate_limit_configs,
                       user_rate_limits, RATE_LIMIT_CACHE, ENDPOINT_CONFIG_CACHE,
                       IP_BLACKLIST_CACHE, updates>>

SeedRateLimitConfigs ==
    {[endpoint |-> "*", max_requests |-> RATE_LIMIT_USER_MAX_REQUESTS,
      window_seconds |-> RATE_LIMIT_USER_WINDOW_SECONDS, active |-> TRUE]}

Init ==
    /\ now = 0
    /\ rate_limits = EmptyBag
    /\ violations = EmptyBag
    /\ ip_blacklist = {}
    /\ user_ip_blacklist = {}
    /\ rate_limit_overrides = {}
    /\ rate_limit_configs = SeedRateLimitConfigs
    /\ user_rate_limits = {}
    /\ user_activity = EmptyBag
    /\ RATE_LIMIT_CACHE = <<>>
    /\ ENDPOINT_CONFIG_CACHE = <<>>
    /\ IP_BLACKLIST_CACHE = <<>>
    /\ tasks = EmptyBag
    /\ redis = <<>>
    /\ user_security_profiles = {}
    /\ user_suspicious_activity = EmptyBag
    /\ updates = [slot \in 1..MaxUpdates |-> NoUpdate]
    /\ last = NoLast

\* the earlier pipeline serving requests
Next ==
    \/ Tick(MaxLegacyTime)
    \/ \E ip \in IPs, u \in Users \cup {NoUser}, p \in Paths, f \in LegacyFaults :
           LegacyDispatch(ip, u, p, f)

Spec == Init /\ [][Next]_vars

\* the IP check called one call after another
NextIp ==
    \/ Tick(MaxTime)
    \/ \E ip \in IPs, f \in TierFaults : CheckAndUpdateIpLimit(ip, f)
    \/ \E ip \in IPs, e \in BlacklistExpiries : BlockIp(ip, e)
    \/ \E ip \in IPs : UnblockIp(ip)

SpecIp == Init /\ [][NextIp]_vars

\* the user check called one call after another, overrides coming and going
NextUser ==
    \/ Tick(MaxTime)
    \/ \E u \in Users, f \in TierFaults : CheckAndUpdateUserLimit(u, LimitedPath, f)
    \/ \E u \in Users, f \in StatusFaults : GetUserLimitStatus(u, LimitedPath, f)
    \/ \E u \in Users, p \in OverridePaths, e \in OverrideExpiries :
           CreateUserOverride(u, p, OverrideLimits(p), e)

SpecUser == Init /\ [][NextUser]_vars

\* a user's requests, overrides and the status report
NextStatus ==
    \/ Tick(MaxTime)
    \/ \E u \in Users : CheckAndUpdateUserLimit(u, LimitedPath, "none")
    \/ \E u \in Users, p \in {LimitedPath, "*"} : GetUserLimitStatus(u, p, "none")
    \/ \E u \in Users : GetRateLimitStatus(u)
    \/ \E u \in Users, p \in OverridePaths, e \in OverrideExpiries :
           CreateUserOverride(u, p, OverrideLimits(p), e)

SpecStatus == Init /\ [][NextStatus]_vars

\* overrides created, deleted and expired while their awaits interleave
NextOverrides ==
    \/ Tick(MaxActivityTime)
    \/ \E slot \in 1..MaxCreates, u \in Users, p \in OverridePaths,
          limits \in OverrideChoices, e \in OverrideExpiries :
           OverrideFetch(slot, u, p, limits, e)
    \/ \E slot \in 1..MaxCreates : OverrideWrite(slot)
    \/ \E id \in 1..MaxCreates : DeleteOverride(id)
    \/ \E u \in Users : GetUserLimitStatus(u, LimitedPath, "none")

SpecOverrides == Init /\ [][NextOverrides]_vars

\* the blacklist administered and asked while entries expire
NextExpiry ==
    \/ Tick(MaxActivityTime)
    \/ \E ip \in ClientIps, e \in BlacklistExpiries : BlockIp(ip, e)
    \/ \E ip \in ClientIps : UnblockIp(ip)
    \/ \E ip \in ClientIps : CheckIpBlacklisted(ip)
    \/ \E ip \in ClientIps : IsIpBlacklistedFetch(ip)

SpecExpiry == Init /\ [][NextExpiry]_vars

\* both pipelines counting the requests of one address
NextWindows ==
    \/ Tick(MaxTime)
    \/ \E ip \in IPs, f \in {"none", "insert"} : CheckAndUpdateIpLimit(ip, f)
    \/ \E ip \in IPs, tracked \in BOOLEAN :
           Dispatch(ip, NoUser, LimitedPath, NoFault, tracked)
    \/ \E task \in BagToSet(tasks) : RunTask(task)
    \/ CreateRateLimitConfig(LimitedPath, 1, RATE_LIMIT_USER_WINDOW_SECONDS, TRUE)

SpecWindows == Init /\ [][NextWindows]_vars

\* the registered middleware serving requests
NextMiddleware ==
    \/ Tick(MaxMiddlewareTime)
    \/ \E ip \in IPs, u \in Users \cup {NoUser}, p \in Paths, f \in DispatchFaults,
          tracked \in BOOLEAN : Dispatch(ip, u, p, f, tracked)
    \/ \E task \in BagToSet(tasks) : RunTask(task)
    \/ \E u \in Users : RemoveUserRateLimit(u)
    \/ \E u \in Users, failing \in BOOLEAN : IsUserRateLimited(u, failing)
    \/ TtlSweep

SpecMiddleware == Init /\ [][NextMiddleware]_vars

\* the registered middleware under requests with and without a bearer token
NextToken ==
    \/ Tick(MaxMiddlewareTime)
    \/ \E ip \in IPs, h \in AuthHeaders, p \in Paths, f \in DispatchFaults,
          tracked \in BOOLEAN : DispatchRequest(ip, h, p, f, tracked)
    \/ \E task \in BagToSet(tasks) : RunTask(task)

SpecToken == Init /\ [][NextToken]_vars

\* the registered middleware and the administration of the IP blacklist
NextBlacklist ==
    \/ Tick(MaxLegacyTime)
    \/ \E ip \in IPs, e \in BlacklistExpiries : BlockIp(ip, e)
    \/ \E ip \in IPs : UnblockIp(ip)
    \/ \E ip \in IPs, u \in Users \cup {NoUser}, p \in Paths, tracked \in BOOLEAN :
           Dispatch(ip, u, p, NoFault, tracked)
    \/ \E task \in BagToSet(tasks) : RunTask(task)

SpecBlacklist == Init /\ [][NextBlacklist]_vars

\* the Redis-backed service called one call after another
NextService ==
    \/ Tick(MaxTime)
    \/ \E ip \in IPs, u \in Users, t \in RecordTypes, d \in BOOLEAN, f \in RedisFaults :
           \/ CheckLimit(IpKey(ip), RATE_LIMIT_IP_MAX_REQUESTS,
                         RATE_LIMIT_IP_WINDOW_SECONDS, t, d, f)
           \/ CheckLimit(UserKey(u, LimitedPath), RATE_LIMIT_USER_MAX_REQUESTS,
                         RATE_LIMIT_USER_WINDOW_SECONDS, t, d, f)
    \/ \E ip \in IPs, d \in {0, 1} : BlacklistIp(ip, "IP blacklisted", d)
    \/ \E ip \in IPs : IsIpBlacklisted(ip)

SpecService == Init /\ [][NextService]_vars

\* overrides and configurations created, then deleted by identifier, through
\* the CRUD methods and through the admin routes
NextDelete ==
    \/ \E u \in Users, p \in OverridePaths, e \in OverrideExpiries :
           CreateUserOverride(u, p, OverrideLimits(p), e)
    \/ \E e \in {API_V1_STR \o "/users", LimitedPath} :
           CreateRateLimitConfig(e, 1, 1, TRUE)
    \/ \E id \in IdStrings : DeleteOverrideById(id)
    \/ \E id \in IdStrings : DeleteRateLimitConfigById(id)
    \/ \E id \in IdStrings : AdminDeleteRateLimitOverride(id)
    \/ \E id \in IdStrings : AdminDeleteRateLimitConfig(id)

SpecDelete == Init /\ [][NextDelete]_vars

\* calls of the count-then-insert check whose awaits interleave
NextOvershoot ==
    \/ Tick(MaxTime)
    \/ \E slot \in 1..MaxUpdates, ip \in IPs : LimitBegin(slot, ip)
    \/ \E slot \in 1..MaxUpdates : LimitQuery(slot)
    \/ \E slot \in 1..MaxUpdates : LimitWrite(slot)

SpecOvershoot == Init /\ [][NextOvershoot]_vars

\* persistent blocks set, removed, read and expiring
NextBlocks ==
    \/ Tick(MaxTime)
    \/ \E u \in BlockedIds, reason \in BlockReasons, d \in BlockMinutes :
           SetUserRateLimited(u, reason, d)
    \/ \E u \in BlockedIds : RemoveUserRateLimit(u)
    \/ \E u \in BlockedIds, failing \in BOOLEAN : IsUserRateLimited(u, failing)
    \/ TtlSweep

SpecBlocks == Init /\ [][NextBlocks]_vars

\* requests of a user and of nobody from two addresses, on a recorded path
\* and on one that is neither recorded nor exempt
OtherPath == "/other"

NextIdentity ==
    \/ Tick(MaxMiddlewareTime)
    \/ \E ip \in IPs : Dispatch(ip, NoUser, LimitedPath, NoFault, FALSE)
    \/ \E ip \in IPs : Dispatch(ip, NoUser, OtherPath, NoFault, FALSE)
    \/ \E ip \in ClientIps, u \in Users : Dispatch(ip, u, OtherPath, NoFault, FALSE)
    \/ \E task \in BagToSet(tasks) : RunTask(task)

SpecIdentity == Init /\ [][NextIdentity]_vars

\* check_limit called on whatever the decision key holds
NextDecisions ==
    \/ Tick(MaxTime)
    \/ \E ip \in IPs, t \in RecordTypes, d \in BOOLEAN, f \in RedisFaults :
           CheckLimit(IpKey(ip), RATE_LIMIT_IP_MAX_REQUESTS, RATE_LIMIT_IP_WINDOW_SECONDS,
                      t, d, f)
    \/ \E ip \in IPs, v \in CachedValues, ex \in {RATE_LIMIT_DECISION_TTL, RATE_LIMIT_IP_WINDOW_SECONDS} :
           RedisSet(IpKey(ip), v, ex)

SpecDecisions == Init /\ [][NextDecisions]_vars

\* the configuration of one path and the global one changed up to
\* ChangeHorizon, and anonymous requests to that path until the cache of the
\* last change has run out
MaxConfigTime == 5
ChangeHorizon == 1

NextConfigCache ==
    \/ Tick(MaxConfigTime)
    \/ \E ip \in IPs : Dispatch(ip, NoUser, OtherPath, NoFault, FALSE)
    \/ now <= ChangeHorizon /\ \E active \in BOOLEAN :
           CreateRateLimitConfig(OtherPath, 1, RATE_LIMIT_USER_WINDOW_SECONDS, active)
    \/ now <= ChangeHorizon /\ CreateRateLimitConfig("*", RATE_LIMIT_USER_MAX_REQUESTS, RATE_LIMIT_USER_WINDOW_SECONDS, FALSE)
    \/ now <= ChangeHorizon /\ DeleteRateLimitConfig(OtherPath)

SpecConfigCache == Init /\ [][NextConfigCache]_vars

\* the status asked while the stores answer or fail, the user's requests
\* counted, and overrides of any integer limit given (max_requests: int)
StatusOverrideChoices ==
    {OverrideLimits(LimitedPath), [max_requests |-> -1, window_seconds |-> 1]}

NextStatusFaults ==
    \/ Tick(MaxActivityTime)
    \/ \E u \in Users : CheckAndUpdateUserLimit(u, LimitedPath, "none")
    \/ \E u \in Users, f \in StatusFaults : GetUserLimitStatus(u, LimitedPath, f)
    \/ \E u \in Users, limits \in StatusOverrideChoices, e \in OverrideExpiries :
           CreateUserOverride(u, LimitedPath, limits, e)

SpecStatusFaults == Init /\ [][NextStatusFaults]_vars

\* the endpoint configurations administered and looked up
NextConfig ==
    \/ \E e \in ConfigEndpoints, m \in ConfigMaxRequests, a \in BOOLEAN :
           CreateRateLimitConfig(e, m, m, a)
    \/ \E e \in ConfigEndpoints : DeleteRateLimitConfig(e)
    \/ \E p \in ConfigPaths, failing \in BOOLEAN : GetRateLimitConfig(p, failing)

SpecConfig == Init /\ [][NextConfig]_vars

\* both pipelines deciding on the requests of one client: the count-then-insert
\* check called directly and the registered middleware
NextViolations ==
    \/ Tick(MaxTime)
    \/ \E ip \in IPs, f \in {"none", "violation"} : CheckAndUpdateIpLimit(ip, f)
    \/ \E ip \in IPs, tracked \in BOOLEAN :
           Dispatch(ip, NoUser, LimitedPath, NoFault, tracked)
    \/ \E task \in BagToSet(tasks) : RunTask(task)

SpecViolations == Init /\ [][NextViolations]_vars

\* the API request consumer recording the requests of a user over the days
NextActivity ==
    \/ Tick(MaxActivityTime)
    \/ \E ip \in ClientIps, agent \in UserAgents, fault \in {"none", "insert"} :
           HandleApiRequestEvent("u1", ip, agent, UsersPath, 200, fault)

SpecActivity == Init /\ [][NextActivity]_vars

\* the API request consumer evaluating requests of every kind
NextTriggers ==
    \E u \in PayloadUsers, agent \in UserAgents, p \in ActivityPaths,
       code \in StatusCodes, fault \in {"none", "insert"} :
        HandleApiRequestEvent(u, "a", agent, p, code, fault)

SpecTriggers == Init /\ [][NextTriggers]_vars

\* requests recorded from two addresses, and requests evaluated on their own
NextKnown ==
    \/ \E ip \in ClientIps : HandleApiRequestEvent("u1", ip, "ua1", UsersPath, 200, "none")
    \/ \E ip \in ClientIps, agent \in UserAgents, p \in ActivityPaths,
          code \in StatusCodes : CheckSuspiciousActivity("u1", ip, agent, p, code)

SpecKnown == Init /\ [][NextKnown]_vars

\* profile updates of one user whose awaits interleave
NextFingerprint ==
    \/ \E slot \in 1..MaxUpdates, u \in Users, ip \in ClientIps, agent \in UserAgents :
           UpdateFetch(slot, u, ip, agent)
    \/ \E slot \in 1..MaxUpdates : UpdateWrite(slot)

SpecFingerprint == Init /\ [][NextFingerprint]_vars

NextSeverity ==
    \E reason \in Reasons, failing \in BOOLEAN :
        CreateSuspiciousActivityLog("u1", "a", "ua1", reason, LimitedPath, 200, failing)

SpecSeverity == Init /\ [][NextSeverity]_vars

\* requests recorded and evaluated while one of the stores is failing
NextBestEffort ==
    \/ \E agent \in UserAgents, fault \in ActivityFaults :
           HandleApiRequestEvent("u1", "a", agent, API_V1_STR \o "/users/7", 200, fault)
    \/ \E h \in AuthHeaders : TrackerDispatch(LimitedPath, "a", "ua1", h, 200)
    \/ \E task \in BagToSet(tasks), fault \in ActivityFaults \cup {"db"} :
           RecordActivity(task, fault)

SpecBestEffort == Init /\ [][NextBestEffort]_vars

\* the tracker and the tasks it schedules
NextTracker ==
    \/ Tick(MaxActivityTime)
    \/ \E p \in TrackerPaths, ip \in ClientIps, agent \in UserAgents,
          h \in AuthHeaders, code \in StatusCodes :
           TrackerDispatch(p, ip, agent, h, code)
    \/ \E task \in BagToSet(tasks), fault \in {"none", "db"} :
           RecordActivity(task, fault)

SpecTracker == Init /\ [][NextTracker]_vars

\* ================================================================ properties
\* rows of one key whose window_start lies in lo..hi (both ends included)
RowsBetween(key, lo, hi) ==
    SumCounts(rate_limits, {r \in BagToSet(rate_limits) :
                               r.key = key /\ lo <= r.window_start /\ r.window_start <= hi})

\* rows of one key younger than age seconds at time t
RowsYoungerThan(key, t, age) ==
    SumCounts(rate_limits, {r \in BagToSet(rate_limits) :
                               r.key = key /\ t - r.window_start < age})

IpCall == last.op = "check_and_update_ip_limit"

\* C1 (as the code has it): calls for one key issued one after another.  No
\* span of W seconds, both ends included, ever holds more than N admitted
\* requests; a call is denied by the window only when N admitted requests
\* are at most W seconds old (an admitted request exactly W seconds old
\* still counts); a call the window admits, its insert succeeding, is
\* recorded at the time of the call.
C1_WindowCorrectness ==
    /\ \A ip \in IPs, t \in 0..MaxTime :
           RowsBetween(IpKey(ip), t, t + RATE_LIMIT_IP_WINDOW_SECONDS)
               <= RATE_LIMIT_IP_MAX_REQUESTS
    /\ (IpCall /\ last.denied_by = "ip")
           => RowsBetween(IpKey(last.ip), last.at - RATE_LIMIT_IP_WINDOW_SECONDS, last.at)
                  >= RATE_LIMIT_IP_MAX_REQUESTS
    /\ (IpCall /\ last.outcome = "allow" /\ ~last.fault_hit)
           => RowsBetween(IpKey(last.ip), last.at, last.at) >= 1

\* C1 witness: a call is admitted after an earlier call was denied, a row
\* older than the window having stopped counting.
C1_Witness ==
    /\ IpCall /\ last.outcome = "allow" /\ ~last.fault_hit
    /\ violations # EmptyBag
    /\ RowsBetween(IpKey(last.ip), 0, last.at - RATE_LIMIT_IP_WINDOW_SECONDS - 1) >= 1

\* C1 as stated: once W seconds have passed since an admitted request it no
\* longer counts, so a denial rests on N admitted requests less than W
\* seconds old.
C1_AsStated ==
    (IpCall /\ last.denied_by = "ip")
        => RowsYoungerThan(IpKey(last.ip), last.at, RATE_LIMIT_IP_WINDOW_SECONDS)
               >= RATE_LIMIT_IP_MAX_REQUESTS

UserCall == "check_and_update_user_limit"
StatusCall == "get_user_limit_status"

Limits(o) == [max_requests |-> o.max_requests, window_seconds |-> o.window_seconds]

UserDefaults == [max_requests |-> RATE_LIMIT_USER_MAX_REQUESTS,
                 window_seconds |-> RATE_LIMIT_USER_WINDOW_SECONDS]

\* the override documents of a user for a path, as stored
OverridesFor(user_id, path) ==
    {o \in rate_limit_overrides : o.user_id = user_id /\ o.path = path}

\* not expired at time t: no expiry, or an expiry that has not passed
Live(o, t) == o.expires_at = NoTime \/ o.expires_at >= t

\* C9 (as the code has it): the user-window check uses the exact-path
\* override's limits when that override has not expired; the wildcard
\* override's limits when no exact-path override is stored and the wildcard
\* has not expired; and the defaults otherwise, that is when neither is
\* stored or when the override the lookup finds has expired (an expired
\* exact-path override hides a wildcard override that has not expired).
C9_OverridePrecedence ==
    [][(last'.op = UserCall /\ last'.outcome # "raise") =>
          LET exact == OverridesFor(last'.user, last'.path)
              wildcard == OverridesFor(last'.user, "*")
              used == [max_requests |-> last'.max_requests,
                       window_seconds |-> last'.window_seconds]
          IN  /\ \A o \in exact : Live(o, last'.at) => used = Limits(o)
              /\ \A o \in exact : ~Live(o, last'.at) => used = UserDefaults
              /\ exact = {} => \A o \in wildcard :
                                   used = IF Live(o, last'.at) THEN Limits(o)
                                          ELSE UserDefaults
              /\ (exact = {} /\ wildcard = {}) => used = UserDefaults]_vars

\* C9 witness: a check answered with the exact override's limits while the
\* user holds an exact and a wildcard override.
C9_Witness ==
    /\ last.op = UserCall /\ last.outcome = "allow"
    /\ \E e \in OverridesFor(last.user, last.path) :
           /\ Limits(e) = [max_requests |-> last.max_requests,
                           window_seconds |-> last.window_seconds]
           /\ \E w \in OverridesFor(last.user, "*") : Limits(w) # Limits(e)

\* C9 as stated, an expired override counting as no override: the exact
\* override's limits whenever a live one is stored, the wildcard's whenever
\* no live exact one is stored and a live wildcard is, the defaults only when
\* neither is stored live.
C9_AsStated ==
    [][(last'.op = UserCall /\ last'.outcome # "raise") =>
          LET exact == {o \in OverridesFor(last'.user, last'.path) : Live(o, last'.at)}
              wildcard == {o \in OverridesFor(last'.user, "*") : Live(o, last'.at)}
              used == [max_requests |-> last'.max_requests,
                       window_seconds |-> last'.window_seconds]
          IN  /\ \A o \in exact : used = Limits(o)
              /\ exact = {} => \A o \in wildcard : used = Limits(o)
              /\ used = UserDefaults => (exact = {} /\ wildcard = {})]_vars

\* C10: when the override the lookup finds (the exact one, else the wildcard)
\* has an expires_at before the time of the call, the user check and the
\* status report use the default limits, and no document with that
\* override's id is left in the store after the call.
C10_ExpiredOverride ==
    [][(last'.op \in {UserCall, StatusCall} /\ last'.outcome # "raise"
        /\ last'.fault.op # "db") =>
          LET exact == OverridesFor(last'.user, last'.path)
              found == IF exact # {} THEN exact ELSE OverridesFor(last'.user, "*")
          IN  \A o \in found : ~Live(o, last'.at) =>
                  /\ last'.max_requests = RATE_LIMIT_USER_MAX_REQUESTS
                  /\ last'.window_seconds = RATE_LIMIT_USER_WINDOW_SECONDS
                  /\ \A d \in rate_limit_overrides' : d.id # o.id]_vars

\* C10 witness: a check answered with the defaults although the user holds
\* a wildcard override without expiry and no exact one: the check found an
\* expired exact override and deleted it.
C10_Witness ==
    /\ last.op = UserCall /\ last.outcome = "allow"
    /\ last.max_requests = RATE_LIMIT_USER_MAX_REQUESTS
    /\ last.at > 1
    /\ OverridesFor(last.user, last.path) = {}
    /\ \E w \in OverridesFor(last.user, "*") : w.expires_at = NoTime

\* ------------------------------------------------ the order of the checks
DispatchCall == last.op = "dispatch" /\ last.path \notin ExemptPaths

\* the checks a request is owed, the blacklist step aside
OwedChecks(user_id, path) ==
    (IF user_id # NoUser THEN <<"persistent">> ELSE <<>>)
    \o <<"ip">>
    \o (IF user_id # NoUser THEN <<"user">> ELSE <<>>)
    \o (IF get_rate_limit_config(rate_limit_configs, path, FALSE) # {}
        THEN <<"endpoint">> ELSE <<>>)

IsPrefix(s, t) == Len(s) <= Len(t) /\ \A i \in 1..Len(s) : s[i] = t[i]

\* C2 as stated, the blacklist step left aside: a request no operation of
\* which fails evaluates persistent block, IP window, user window and
\* endpoint window in this order, all of them when none denies, and up to the
\* first one that denies otherwise.
C2_AsStated ==
    (DispatchCall /\ ~last.fault_hit) =>
        IF last.denied_by = ""
        THEN last.checks = OwedChecks(last.user, last.path)
        ELSE /\ IsPrefix(last.checks, OwedChecks(last.user, last.path))
             /\ last.checks[Len(last.checks)] = last.denied_by

\* What the registered dispatch does keep of C2: the checks it evaluates come
\* in the stated order and a denial is the last of them.
DispatchOrderKept ==
    DispatchCall =>
        /\ IsPrefix(last.checks, OwedChecks(last.user, last.path))
        /\ last.denied_by # "" => last.checks[Len(last.checks)] = last.denied_by

\* ------------------------------------------------------------ the blacklist
\* a blacklist document for the IP that has not expired at time t
Blacklisted(ip, t) ==
    \E b \in ip_blacklist \cup user_ip_blacklist :
        b.ip = ip /\ (b.expires_at = NoTime \/ b.expires_at > t)

\* C3 as stated: a request whose client IP has a blacklist entry that has
\* not expired is denied, whoever the user and whatever the (non-exempt)
\* path.
C3_AsStated ==
    (DispatchCall /\ Blacklisted(last.ip, last.at)) => last.outcome = "denied"

\* ----------------------------------------------------------------- fail-open
LegacyCall == last.op = "legacy_dispatch"

\* C4 (as the code has it): when the window-count query or the insert of a
\* tier check raises, that check does not deny and raises nothing, so the
\* checks after it are still evaluated; the request is forwarded unless one
\* of those later checks denies it.
C4_FailOpen ==
    (LegacyCall /\ last.fault_hit) =>
        /\ last.fault.op \in {"query", "insert"}
        /\ last.denied_by # last.fault.tier
        /\ last.fault.tier # "endpoint" =>
               last.checks[Len(last.checks)] # last.fault.tier
        /\ last.denied_by = "" => last.outcome = "forwarded"

\* C4 witness: the IP window's insert raised, the user window and the
\* endpoint window were evaluated after it and the request was forwarded.
C4_Witness ==
    /\ LegacyCall /\ last.fault_hit
    /\ last.fault = [tier |-> "ip", op |-> "insert"]
    /\ last.checks = <<"blacklist", "ip", "user", "endpoint">>
    /\ last.outcome = "forwarded"

\* C4 as stated: when the window-count query or the insert of a tier check
\* raises, the request is forwarded.
C4_AsStated ==
    (LegacyCall /\ last.fault_hit) => last.outcome = "forwarded"

\* The registered dispatch: a view query that raises makes the check answer
\* ALLOW, and the request is forwarded.
DispatchFailOpen ==
    (DispatchCall /\ last.fault_hit /\ last.fault.op = "query") =>
        /\ last.outcome = "forwarded"
        /\ last.checks[Len(last.checks)] = last.fault.tier

\* C5 as stated: when Redis fails on the lookup or on the write of
\* check_limit, the call raises nothing and does not deny.
C5_AsStated ==
    (last.op = "check_limit" /\ last.fault_hit) => last.outcome = "allow"

\* --------------------------------------------------------- persistent block
\* the stored block of a user is in force at time t
BlockInForce(user_id, t) ==
    \E r \in user_rate_limits :
        /\ r.user_id = user_id /\ r.is_limited
        /\ r.limited_until # NoTime /\ r.limited_until > t

\* C6: a request of a user whose stored block is in force, the read of the
\* block succeeding, is answered 429 by the persistent-block check alone:
\* the dispatch evaluates no window check, writes no decision and no config
\* to the caches, schedules no task and leaves the blocks as they are.
C6_PersistentBlockAuthoritative ==
    [][(/\ last'.op = "dispatch" /\ last'.path \notin ExemptPaths
        /\ last'.user # NoUser /\ last'.fault.tier # "persistent"
        /\ BlockInForce(last'.user, now)) =>
          /\ last'.outcome = "denied" /\ last'.status = 429
          /\ last'.denied_by = "persistent"
          /\ last'.checks = <<"persistent">>
          /\ RATE_LIMIT_CACHE' = RATE_LIMIT_CACHE
          /\ ENDPOINT_CONFIG_CACHE' = ENDPOINT_CONFIG_CACHE
          /\ tasks' = tasks
          /\ user_rate_limits' = user_rate_limits]_vars

\* C6 witness: a request denied by the persistent block while the IP window
\* of its client has quota left.
C6_Witness ==
    /\ DispatchCall /\ last.denied_by = "persistent" /\ last.at = now
    /\ BlockInForce(last.user, now)
    /\ check_ip_limit(user_activity, last.ip, RATE_LIMIT_IP_MAX_REQUESTS,
                      RATE_LIMIT_IP_WINDOW_SECONDS, now, FALSE)

\* C7: is_user_rate_limited, its read succeeding, answers limited exactly
\* when the user's record has is_limited set and a limited_until strictly
\* after the time of the read; a request of a user it reports as not limited
\* goes on to the IP window.
C7_LimitedOnlyWhileInForce ==
    /\ (last.op = "is_user_rate_limited" /\ ~last.fault_hit) =>
           (last.outcome = "limited" <=> BlockInForce(last.user, last.at))
    /\ (DispatchCall /\ last.user # NoUser /\ ~BlockInForce(last.user, last.at)) =>
           /\ Len(last.checks) >= 2
           /\ last.checks[1] = "persistent" /\ last.checks[2] = "ip"

\* C7 witness: the read reports not limited for a record whose is_limited
\* is set and whose limited_until is the very time of the read.
C7_Witness ==
    /\ last.op = "is_user_rate_limited" /\ ~last.fault_hit
    /\ last.outcome = "not_limited"
    /\ \E r \in user_rate_limits :
           r.user_id = last.user /\ r.is_limited /\ r.limited_until = last.at

\* C8 as stated: after a read that finds limited_until in the past, the
\* stored record no longer has is_limited set.
C8_AsStated ==
    (last.op = "is_user_rate_limited" /\ ~last.fault_hit) =>
        \A r \in user_rate_limits :
            (r.user_id = last.user /\ r.limited_until # NoTime
             /\ r.limited_until < last.at) => ~r.is_limited

\* ------------------------------------------------- endpoint configurations
\* the active configurations whose pattern matches the path
Candidates(path) ==
    {c \in rate_limit_configs : c.active /\ Matches(c.endpoint, path)}

\* the most specific of them: the exact one, else every longest one
MostSpecific(path) ==
    LET exact == {c \in Candidates(path) : c.endpoint = path}
    IN  IF exact # {} THEN exact
        ELSE {c \in Candidates(path) :
                 \A d \in Candidates(path) : Len(d.endpoint) <= Len(c.endpoint)}

ConfigCall == last.op = "get_rate_limit_config" /\ ~last.fault_hit

\* C11 as stated: the lookup answers the most specific active configuration
\* whose pattern matches the path, and none only when none matches.
C11_AsStated ==
    ConfigCall =>
        IF Candidates(last.path) = {} THEN last.outcome = "none"
        ELSE /\ last.outcome = "found"
             /\ \E c \in MostSpecific(last.path) :
                    c.endpoint = last.detail /\ c.max_requests = last.max_requests

\* What the lookup does keep of C11: an active configuration for the very
\* path is the one answered; otherwise the active "*" configuration is; and
\* otherwise none is, whatever prefix patterns are stored.
ConfigExactThenGlobal ==
    ConfigCall =>
        LET exact == {c \in rate_limit_configs : c.active /\ c.endpoint = last.path}
            global == {c \in rate_limit_configs : c.active /\ c.endpoint = "*"}
        IN  /\ exact # {} => \E c \in exact : c.endpoint = last.detail
                                  /\ c.max_requests = last.max_requests
            /\ (exact = {} /\ global # {}) => last.detail = "*"
            /\ (exact = {} /\ global = {}) => last.outcome = "none"

\* --------------------------------------------------------------- violations
Windows == {"ip", "user", "endpoint"}

CachedDeny(cache_key, t) ==
    Valid(RATE_LIMIT_CACHE, cache_key, t) /\ ~RATE_LIMIT_CACHE[cache_key].is_allowed

WindowReset(ua, ip, t) ==
    CHOOSE reset \in t..(t + RATE_LIMIT_IP_WINDOW_SECONDS + MinuteSeconds) :
        /\ check_ip_limit(ua, ip, RATE_LIMIT_IP_MAX_REQUESTS,
                          RATE_LIMIT_IP_WINDOW_SECONDS, reset, FALSE)
        /\ \A earlier \in t..(reset - 1) :
               ~check_ip_limit(ua, ip, RATE_LIMIT_IP_MAX_REQUESTS,
                               RATE_LIMIT_IP_WINDOW_SECONDS, earlier, FALSE)

\* the decisions a step of the registered middleware writes to its cache
Written(before, after) ==
    {k \in DOMAIN after : k \notin DOMAIN before \/ after[k] # before[k]}

\* C14 (as the code has it): the registered middleware caches every decision
\* it computes, DENY as well as ALLOW, until CACHE_TTL_SECONDS after the
\* check; a request that finds a cached DENY of its IP still valid is denied
\* from it, the cache staying as it is.
C14_DecisionTtl ==
    [][(last'.op = "dispatch" /\ last'.path \notin ExemptPaths) =>
          /\ \A k \in Written(RATE_LIMIT_CACHE, RATE_LIMIT_CACHE') :
                 RATE_LIMIT_CACHE'[k].expire = now + CACHE_TTL_SECONDS
          /\ (CachedDeny(IpKey(last'.ip), now) /\ last'.denied_by # "persistent") =>
                 /\ last'.denied_by = "ip"
                 /\ RATE_LIMIT_CACHE' = RATE_LIMIT_CACHE]_vars

\* C14 witness: a request was denied on the IP window and the DENY cached for
\* it runs out before the window resets.
C14_Witness ==
    /\ DispatchCall /\ last.denied_by = "ip" /\ last.at = now
    /\ CachedDeny(IpKey(last.ip), now)
    /\ RATE_LIMIT_CACHE[IpKey(last.ip)].expire = now + CACHE_TTL_SECONDS
    /\ WindowReset(user_activity, last.ip, now) > now + CACHE_TTL_SECONDS

\* C14 as stated: a DENY decision is cached until the window resets.
C14_AsStated ==
    [][(last'.op = "dispatch" /\ last'.denied_by = "ip"
        /\ IpKey(last'.ip) \in Written(RATE_LIMIT_CACHE, RATE_LIMIT_CACHE')) =>
          RATE_LIMIT_CACHE'[IpKey(last'.ip)].expire
              >= WindowReset(user_activity', last'.ip, now)]_vars

\* The Redis-backed service beside it: _check_limit never answers, so
\* check_limit computes no verdict of its own, caches none and denies nobody.
CheckLimitNeverDenies ==
    last.op = "check_limit" => last.outcome \in {"allow", "raise"}

\* ------------------------------------------------------ security profiles
\* the entries of the profile for the pair
Entries(profile, client_ip, user_agent) ==
    {i \in DOMAIN profile.known_fingerprints :
         /\ profile.known_fingerprints[i].ip = client_ip
         /\ profile.known_fingerprints[i].user_agent = user_agent}

\* how many times the pair was recorded for the user: its rows in user_activity
Recorded(user_id, client_ip, user_agent) ==
    LET rows == {r \in BagToSet(user_activity) :
                     /\ r.user_id = user_id
                     /\ r.client_ip = client_ip
                     /\ r.user_agent = user_agent}
    IN  BagCardinality([r \in rows |-> CopiesIn(r, user_activity)])

\* C15: recorded one after another, a pair recorded k times for a user has
\* exactly one fingerprint entry, whose request_count is k, and a pair never
\* recorded has none; the user has one profile at most.
C15_FingerprintIdempotence ==
    /\ \A p, q \in user_security_profiles : p.user_id = q.user_id => p = q
    /\ \A u \in Users, ip \in ClientIps, agent \in UserAgents :
           LET k == Recorded(u, ip, agent)
           IN  IF k = 0
               THEN \A p \in user_security_profiles :
                        p.user_id = u => Entries(p, ip, agent) = {}
               ELSE \E p \in user_security_profiles :
                        /\ p.user_id = u
                        /\ Cardinality(Entries(p, ip, agent)) = 1
                        /\ \A i \in Entries(p, ip, agent) :
                               p.known_fingerprints[i].request_count = k

\* the same pair has just been recorded for the second time
C15_Witness ==
    /\ last.op = "handle_api_request_event"
    /\ last.recorded
    /\ Recorded(last.user, last.ip, last.user_agent) = 2
    /\ \E p \in user_security_profiles :
           /\ p.user_id = last.user
           /\ Len(p.known_fingerprints) = 1
           /\ p.known_fingerprints[1].request_count = 2

\* the updates that have run to their end, and those between their awaits
Finished == {slot \in DOMAIN updates : updates[slot].pc = "done"}
InFlight == {slot \in DOMAIN updates : updates[slot].pc = "fetched"}

\* the request_counts of the user's profiles, added up
CountSum(user_id) ==
    LET counts == [p \in {q \in user_security_profiles : q.user_id = user_id} |->
                       LET fps == p.known_fingerprints
                           RECURSIVE Sum(_)
                           Sum(i) == IF i = 0 THEN 0 ELSE fps[i].request_count + Sum(i - 1)
                       IN  Sum(Len(fps))]
        RECURSIVE Total(_)
        Total(S) == IF S = {} THEN 0
                    ELSE LET p == CHOOSE p \in S : TRUE IN counts[p] + Total(S \ {p})
    IN  Total(DOMAIN counts)

\* C16, as stated: once the concurrent updates of a user have all finished
\* there is one profile for the user, one entry for each pair an update
\* carried, and the request_counts add up to the number of updates.
C16_AsStated ==
    (InFlight = {} /\ Finished # {}) =>
        \A u \in Users :
            LET mine == {slot \in Finished : updates[slot].user_id = u}
                profiles == {p \in user_security_profiles : p.user_id = u}
            IN  mine # {} =>
                    /\ Cardinality(profiles) = 1
                    /\ \A slot \in mine : \A p \in profiles :
                           Cardinality(Entries(p, updates[slot].client_ip,
                                               updates[slot].user_agent)) = 1
                    /\ CountSum(u) = Cardinality(mine)

\* what does hold whatever the interleaving: no profile holds a pair twice,
\* and no count exceeds the number of finished updates of that pair
FingerprintsUnderInterleaving ==
    \A p \in user_security_profiles, ip \in ClientIps, agent \in UserAgents :
        /\ Cardinality(Entries(p, ip, agent)) <= 1
        /\ \A i \in Entries(p, ip, agent) :
               p.known_fingerprints[i].request_count
                   <= Cardinality({slot \in Finished :
                                       /\ updates[slot].user_id = p.user_id
                                       /\ updates[slot].client_ip = ip
                                       /\ updates[slot].user_agent = agent})

\* ------------------------------------------------------ suspicious activity
\* the lower-cased reason holds one of the words
Mentions(reason, words) == \E w \in words : Contains(lower(reason), w)

\* C17: the severity of every logged row is high when its lower-cased reason
\* holds one of password, auth, login, token, multiple, admin, otherwise low
\* when it holds one of "new device", "different location", "unusual time",
\* otherwise medium; "Failed access attempt to sensitive endpoint" is medium
\* and "new device detected" is low.
C17_SeverityClassification ==
    \A row \in BagToSet(user_suspicious_activity) :
        /\ row.severity =
               IF Mentions(row.details,
                           {"password", "auth", "login", "token", "multiple", "admin"})
               THEN "high"
               ELSE IF Mentions(row.details,
                                {"new device", "different location", "unusual time"})
                    THEN "low"
                    ELSE "medium"
        /\ row.details = "Failed access attempt to sensitive endpoint"
               => row.severity = "medium"
        /\ row.details = "new device detected" => row.severity = "low"

\* a reason that holds a high and a low keyword, one of them in capitals, has
\* been logged as high
C17_Witness ==
    /\ last.op = "create_suspicious_activity_log"
    /\ ~last.fault_hit
    /\ last.detail # lower(last.detail)
    /\ Mentions(last.detail, {"new device"})
    /\ Mentions(last.detail, {"admin"})
    /\ \E row \in BagToSet(user_suspicious_activity) :
           row.details = last.detail /\ row.severity = "high"

HandledRequest == last'.op = "handle_api_request_event"

\* the rows the step added to user_suspicious_activity with that reason
Logged(reason) ==
    LET Count(sus) ==
            BagCardinality([row \in {r \in BagToSet(sus) :
                                         /\ r.details = reason
                                         /\ r.client_ip = last'.ip
                                         /\ r.user_agent = last'.user_agent
                                         /\ r.path = last'.path
                                         /\ r.status_code = last'.status} |->
                                CopiesIn(row, sus)])
    IN  Count(user_suspicious_activity') - Count(user_suspicious_activity)

\* the suspicious_activity_count of the user's profiles, added up
SuspiciousCount(profiles, user_id) ==
    LET mine == {p \in profiles : p.user_id = user_id}
        RECURSIVE Total(_)
        Total(S) == IF S = {} THEN 0
                    ELSE LET p == CHOOSE p \in S : TRUE
                         IN  p.suspicious_activity_count + Total(S \ {p})
    IN  Total(mine)

\* C18, as stated: a handled request of an authenticated user from a pair that
\* was not among the user's known fingerprints before it, while the user's rows
\* of the trailing 24 hours (this request's row included, as the evaluation
\* counts them) come from more IPs than the threshold, logs one row "Too many
\* different IPs used in a short time", adds one to suspicious_activity_count
\* and is reported suspicious.
C18_AsStated ==
    [][(/\ HandledRequest
        /\ last'.user # NoUser
        /\ \A p \in user_security_profiles :
               p.user_id = last'.user => ~KnownFingerprint(p, last'.ip, last'.user_agent)
        /\ Cardinality(RecentIps(user_activity', last'.user, last'.at))
               > SECURITY_MAX_UNIQUE_IPS_PER_DAY)
       => (/\ Logged("Too many different IPs used in a short time") = 1
           /\ SuspiciousCount(user_security_profiles', last'.user)
                  = SuspiciousCount(user_security_profiles, last'.user) + 1
           /\ last'.suspicious)]_vars

\* the device-diversity trigger fires only for a request whose recording
\* failed: a recorded request has made its own pair known before it is
\* evaluated
DiversityOnlyUnrecorded ==
    (last.op = "handle_api_request_event" /\ last.diversity) => ~last.recorded

FailedAccess == "Failed access attempt to sensitive endpoint"
NewDevice(pattern) == "New device accessed sensitive endpoint: " \o pattern

\* C19: a handled request with status_code >= 400 on a path that matches a
\* sensitive pattern logs one row "Failed access attempt to sensitive endpoint"
\* and is reported suspicious, authenticated or not; when it is authenticated
\* the row of the sensitive-path trigger is logged as well.
C19_FailedAccessTrigger ==
    [][(HandledRequest /\ last'.status >= 400 /\ FirstSensitive(last'.path) # 0)
       => (/\ Logged(FailedAccess) = 1
           /\ last'.suspicious
           /\ last'.user # NoUser =>
                  Logged(NewDevice(sensitive_paths[FirstSensitive(last'.path)])) = 1)]_vars

\* an authenticated request to a sensitive path has failed and left both rows
C19_Witness ==
    /\ last.op = "handle_api_request_event"
    /\ last.user # NoUser
    /\ last.status >= 400
    /\ FirstSensitive(last.path) # 0
    /\ last.suspicious
    /\ \E failed, device \in BagToSet(user_suspicious_activity) :
           /\ failed.details = FailedAccess
           /\ device.details = NewDevice(sensitive_paths[FirstSensitive(last.path)])
           /\ failed.path = last.path /\ device.path = last.path
           /\ failed.status_code = last.status /\ device.status_code = last.status
           /\ failed.user_id = last.user /\ device.user_id = last.user

\* C20: a handled request of an authenticated user on a path that matches a
\* sensitive pattern logs exactly one row "New device accessed sensitive
\* endpoint: {pattern}", for the first pattern that matches, and is reported
\* suspicious, whether or not the pair is known and a profile exists; a
\* request that is not authenticated logs no such row.
C20_SensitivePathTrigger ==
    [][HandledRequest =>
           LET first == FirstSensitive(last'.path)
           IN  /\ (last'.user # NoUser /\ first # 0) =>
                      /\ Logged(NewDevice(sensitive_paths[first])) = 1
                      /\ last'.suspicious
               /\ \A i \in DOMAIN sensitive_paths :
                      (last'.user = NoUser \/ i # first) =>
                          Logged(NewDevice(sensitive_paths[i])) = 0]_vars

\* the row has been logged for a user who has no security profile
C20_Witness ==
    /\ last.op = "handle_api_request_event"
    /\ last.user # NoUser
    /\ FirstSensitive(last.path) # 0
    /\ last.suspicious
    /\ \A p \in user_security_profiles : p.user_id # last.user
    /\ \E row \in BagToSet(user_suspicious_activity) :
           /\ row.details = NewDevice(sensitive_paths[FirstSensitive(last.path)])
           /\ row.user_id = last.user
           /\ row.path = last.path

\* ------------------------------------------------------------ best effort
\* the steps that record and evaluate a request
Recording == last'.op \in {"handle_api_request_event", "_record_activity"}

\* C21: whichever store fails while a request is recorded and evaluated, in
\* the event consumer or in the tracker's background task, the exception is
\* caught inside: none leaves the handler or the task, and the step touches
\* nothing of the limiter, whose answer to the request stands.
C21_BestEffort ==
    [][Recording =>
           /\ ~last'.escaped
           /\ last'.outcome \in {"returned", "caught"}
           /\ UNCHANGED <<user_rate_limits, RATE_LIMIT_CACHE, ENDPOINT_CONFIG_CACHE,
                          IP_BLACKLIST_CACHE, redis, legacy_vars, user_ip_blacklist,
                          rate_limit_configs>>]_vars

\* the activity store failed under a request from a pair the profile does
\* not know: the query raised out of check_suspicious_activity and the
\* handler caught it
C21_Witness ==
    /\ last.op = "handle_api_request_event"
    /\ last.store_fault = "activity"
    /\ last.outcome = "caught"
    /\ ~last.escaped
    /\ \E p \in user_security_profiles :
           p.user_id = last.user /\ ~KnownFingerprint(p, last.ip, last.user_agent)

\* ------------------------------------------------------- denial responses
\* the request the registered limiter answered last
Limited == last.op = "dispatch" /\ last.outcome = "denied"

\* C22: every request the registered limiter denies is answered 429 with
\* the body {"detail": reason}, the reason being the one of the tier that
\* denied, and the response carries no Retry-After header, whatever the
\* tier; every other request is passed to the application, once.
C22_DenialResponses ==
    last.op = "dispatch" =>
        /\ last.outcome \in {"denied", "forwarded"}
        /\ last.outcome = "denied" =>
               /\ last.status = 429
               /\ last.detail # ""
               /\ last.denied_by = "ip" =>
                      last.detail = "Too many requests from this IP address"
               /\ last.denied_by = "user" =>
                      last.detail = "Too many requests - please slow down"
               /\ last.denied_by = "endpoint" =>
                      last.detail = "Rate limit exceeded for " \o last.path
               /\ "Retry-After" \notin DOMAIN last.headers
        /\ last.outcome = "forwarded" =>
               /\ last.denied_by = ""
               /\ last.status = 0
               /\ last.detail = ""

\* a user under a persistent block is denied with the stored reason
C22_Witness ==
    /\ Limited
    /\ last.denied_by = "persistent"
    /\ last.status = 429
    /\ last.detail = "IP-based rate limit exceeded"
    /\ last.headers = <<>>

\* C22 as the specification states it: a denial carries Retry-After, 600
\* for a persistent user block and 60 otherwise
C22_AsStated ==
    Limited =>
        /\ last.status \in {429, 403}
        /\ "Retry-After" \in DOMAIN last.headers
        /\ last.headers["Retry-After"] =
               IF last.denied_by = "persistent" THEN 600 ELSE 60

\* ------------------------------------------------------ undecodable token
\* the limiter evaluated the tier for the last request
Checked(tier) == \E i \in 1..Len(last.checks) : last.checks[i] = tier

\* the last request carried a bearer token that does not decode
Undecodable ==
    /\ last.op = "dispatch"
    /\ startswith(last.auth, "Bearer ")
    /\ SubSeq(last.auth, Len("Bearer ") + 1, Len(last.auth)) \notin Users

\* C23: a request whose bearer token does not decode is handled as an
\* anonymous one: no persistent-block lookup and no user window is evaluated
\* for it, the IP window is, then the endpoint window, and only one of these
\* two can deny it.
C23_UndecodableIsAnonymous ==
    Undecodable =>
        /\ ~Checked("persistent")
        /\ ~Checked("user")
        /\ last.path \notin ExemptPaths => Checked("ip")
        /\ last.checks \in {<<>>, <<"ip">>, <<"ip", "endpoint">>}
        /\ last.outcome = "denied" => last.denied_by \in {"ip", "endpoint"}

\* a request with an undecodable token passed the IP window and was denied
\* by the endpoint window
C23_Witness ==
    /\ Undecodable
    /\ last.checks = <<"ip", "endpoint">>
    /\ last.outcome = "denied"
    /\ last.denied_by = "endpoint"

\* ----------------------------------------------------------- status report
\* the requests of the user that were admitted in the window that ends now
Admitted(user_id, window_seconds) ==
    SumCounts(rate_limits, {r \in BagToSet(rate_limits) :
                                /\ r.key \in {UserKey(user_id, p) : p \in Paths}
                                /\ r.window_start >= now - window_seconds})

\* total_allowed minus the admitted requests, not below zero
Remaining(total_allowed, admitted) ==
    IF total_allowed > admitted THEN total_allowed - admitted ELSE 0

\* C24 as the specification states it: the status report of the route, and
\* the overall status the route asks get_user_limit_status for, answer
\* remaining = total_allowed minus the user's admitted requests in the
\* window, with the values of the override that applies.
C24_AsStated ==
    /\ last.op = "get_rate_limit_status" =>
           /\ last.status = 200
           /\ last.remaining = Remaining(last.max_requests,
                                         Admitted(last.user, last.window_seconds))
    /\ (last.op = "get_user_limit_status" /\ last.path = "*") =>
           last.remaining = Remaining(last.max_requests,
                                      Admitted(last.user, last.window_seconds))

\* the route never answers a report
StatusRouteRaises ==
    last.op = "get_rate_limit_status" => last.status = 500 /\ last.outcome = "raised"

\* the overall status counts the key of path "*", under which no request is
\* counted: all of total_allowed remains
OverallStatusCountsNothing ==
    (last.op = "get_user_limit_status" /\ last.path = "*") =>
        last.remaining = last.max_requests

\* asked for the path the requests are counted under, get_user_limit_status
\* answers total_allowed minus the requests admitted in the window
StatusOfCountedPath ==
    (last.op = "get_user_limit_status" /\ last.path = LimitedPath) =>
        last.remaining = Remaining(last.max_requests,
                                   Admitted(last.user, last.window_seconds))

\* -------------------------------------------------- one override per pair
\* the overrides of a pair
OverridesOf(ov, user_id, path) == {o \in ov : o.user_id = user_id /\ o.path = path}

AtMostOnePerPair ==
    \A u \in Users, p \in OverridePaths :
        Cardinality(OverridesOf(rate_limit_overrides, u, p)) <= 1

Scheduled == tasks' (-) tasks

\* the block a denial of the tier asks for: who is blocked, why and how long
BlockOf(tier, client_ip, user_id, path) ==
    IF tier = "ip"
    THEN SetUserRateLimitedTask(IF user_id # NoUser THEN user_id ELSE IpKey(client_ip),
                                "IP-based rate limit exceeded", IP_BLOCK_MINUTES)
    ELSE SetUserRateLimitedTask(user_id, "User rate limit exceeded for " \o path,
                                USER_BLOCK_MINUTES)

\* the decision of the tier was answered from the cache
CachedDecision(tier, client_ip, user_id, path) ==
    Valid(RATE_LIMIT_CACHE,
          IF tier = "ip" THEN IpKey(client_ip) ELSE UserKey(user_id, path), now)

\* C26: a denial the IP window computes schedules one block of
\* IP_BLOCK_MINUTES (15 minutes) and a denial the user window computes one
\* block of that user of USER_BLOCK_MINUTES (10 minutes); a denial answered
\* from the cache, by the endpoint window or by a persistent block, and an
\* admitted request, schedule nothing, and no request writes a block itself.
\* The scheduled block, once run, is in force for its minutes from then.
C26_PersistentBlocks ==
    [][/\ last'.op = "dispatch" =>
              /\ user_rate_limits' = user_rate_limits
              /\ Scheduled =
                     IF /\ last'.denied_by \in {"ip", "user"}
                        /\ ~CachedDecision(last'.denied_by, last'.ip, last'.user,
                                           last'.path)
                     THEN SetToBag({BlockOf(last'.denied_by, last'.ip, last'.user,
                                            last'.path)})
                     ELSE EmptyBag
       /\ BagCardinality(tasks') < BagCardinality(tasks) =>
              \E task \in BagToSet(tasks) :
                  /\ tasks' = tasks (-) SetToBag({task})
                  /\ \E r \in user_rate_limits' :
                         /\ r.user_id = task.user_id
                         /\ r.is_limited
                         /\ r.reason = task.reason
                         /\ r.limited_until = now + task.duration_minutes
                  /\ \A r \in user_rate_limits' :
                         r.user_id # task.user_id => r \in user_rate_limits]_vars

\* the block of a user-window denial has been written, and the user is
\* denied by it
C26_Witness ==
    /\ last.op = "dispatch"
    /\ last.denied_by = "persistent"
    /\ \E r \in user_rate_limits :
           /\ r.user_id = last.user
           /\ r.is_limited
           /\ r.reason = "User rate limit exceeded for " \o last.path
           /\ r.limited_until > now

\* ------------------------------------------------------- blacklist expiry
\* the IP has blacklist entries, and the expires_at of each has passed
OnlyExpired(ip, t) ==
    /\ \E b \in ip_blacklist \cup user_ip_blacklist : b.ip = ip
    /\ \A b \in ip_blacklist \cup user_ip_blacklist :
           b.ip = ip => (b.expires_at # NoTime /\ b.expires_at < t)

BlacklistCheck == last.op \in {"check_ip_blacklisted", "is_ip_blacklisted"}

\* C27 as the specification states it: an IP whose blacklist entry has
\* expired is answered as not blacklisted by check_ip_blacklisted and by the
\* cached is_ip_blacklisted.
C27_AsStated ==
    (BlacklistCheck /\ OnlyExpired(last.ip, last.at)) =>
        last.outcome = "not_blacklisted"

\* check_ip_blacklisted answers by the existence of a document alone
ExpiryNeverRead ==
    last.op = "check_ip_blacklisted" =>
        (last.outcome = "blacklisted" <=>
             \E b \in user_ip_blacklist : b.ip = last.ip)

\* ----------------------------------------------------------- window events
\* the row _check_and_update_limit inserts for a request
WindowEvent(key, type, t) == [key |-> key, type |-> type, window_start |-> t]

TrackerCall == last'.op = "tracker_dispatch"

\* the task of the request the tracker answered last
TaskOfLast ==
    RecordActivityTask(last'.user, last'.path, last'.ip, last'.user_agent, last'.status)

KnownTo(profiles, user_id, client_ip, user_agent) ==
    \E p \in profiles : p.user_id = user_id /\ KnownFingerprint(p, client_ip, user_agent)

\* C30: check_suspicious_activity on a request from a pair the user's
\* profile knows, to a path that matches no sensitive pattern, with a status
\* below 400, answers False, logs nothing and leaves the profiles, the
\* suspicious_activity_count among them, as they were.
C30_KnownFingerprintQuiet ==
    [][(/\ last'.op = "check_suspicious_activity"
        /\ KnownTo(user_security_profiles, last'.user, last'.ip, last'.user_agent)
        /\ FirstSensitive(last'.path) = 0
        /\ last'.status < 400) =>
           /\ ~last'.suspicious
           /\ user_suspicious_activity' = user_suspicious_activity
           /\ user_security_profiles' = user_security_profiles]_vars

\* the request came from a known pair of a user who has been seen from more
\* addresses than the threshold, and nothing was reported
C30_Witness ==
    /\ last.op = "check_suspicious_activity"
    /\ KnownTo(user_security_profiles, last.user, last.ip, last.user_agent)
    /\ FirstSensitive(last.path) = 0
    /\ last.status < 400
    /\ ~last.suspicious
    /\ Cardinality(RecentIps(user_activity, last.user, now)) > SECURITY_MAX_UNIQUE_IPS_PER_DAY
    /\ user_suspicious_activity = EmptyBag

\* ------------------------------------------------------------------ C31
\* the identifier matches a stored override / a stored configuration
OverrideStored(id) == id \in DOMAIN ObjectId /\ \E o \in rate_limit_overrides : o.id = ObjectId[id]
ConfigStored(id) == id \in DOMAIN ObjectId /\ \E c \in rate_limit_configs : ConfigId[c.endpoint] = ObjectId[id]

\* C31 (as stated): a delete with a malformed identifier, or with a
\* well-formed one that matches no record, answers False, which the admin
\* route surfaces as 404, and no stored override or configuration changes.
C31_AsStated ==
    [][ /\ (last'.op \in {"delete_override", "admin_delete_rate_limit_override"} /\ ~OverrideStored(last'.detail))
            => /\ UNCHANGED <<rate_limit_overrides, rate_limit_configs>>
               /\ last'.op = "delete_override" => last'.outcome = "false"
               /\ last'.op = "admin_delete_rate_limit_override" => last'.status = 404
        /\ (last'.op \in {"delete_rate_limit_config", "admin_delete_rate_limit_config"} /\ ~ConfigStored(last'.detail))
            => /\ UNCHANGED <<rate_limit_overrides, rate_limit_configs>>
               /\ last'.op = "delete_rate_limit_config" => last'.outcome = "false"
               /\ last'.op = "admin_delete_rate_limit_config" => last'.status = 404 ]_vars

\* what the CRUD methods deliver: False and no change for an identifier that
\* is malformed or matches nothing, True and exactly that record gone otherwise
DeleteMethodsAnswer ==
    [][ /\ last'.op = "delete_override"
            => IF OverrideStored(last'.detail)
               THEN /\ last'.outcome = "true"
                    /\ rate_limit_overrides' = {o \in rate_limit_overrides : o.id # ObjectId[last'.detail]}
               ELSE last'.outcome = "false" /\ UNCHANGED rate_limit_overrides
        /\ last'.op = "delete_rate_limit_config"
            => IF ConfigStored(last'.detail)
               THEN /\ last'.outcome = "true"
                    /\ rate_limit_configs' = {c \in rate_limit_configs : ConfigId[c.endpoint] # ObjectId[last'.detail]}
               ELSE last'.outcome = "false" /\ UNCHANGED rate_limit_configs ]_vars

\* what the admin routes deliver: every delete ends in the TypeError of the
\* call without db, and nothing is deleted
DeleteRoutesRaise ==
    [][ last'.op \in {"admin_delete_rate_limit_override", "admin_delete_rate_limit_config"}
            => /\ last'.status = 500
               /\ UNCHANGED <<rate_limit_overrides, rate_limit_configs>> ]_vars

\* a malformed identifier refused by delete_override while overrides are stored
MalformedRefused ==
    /\ last.op = "delete_override" /\ last.detail = "zz" /\ last.outcome = "false"
    /\ rate_limit_overrides # {}

\* ------------------------------------------------------------------ C32
\* rows of the IP window / of the endpoint window of a path, as the
\* materialized views count them at time t
IpRows(ip, t) == SumCounts(user_activity, {r \in BagToSet(user_activity) : r.client_ip = ip /\ r.minute >= t - RATE_LIMIT_IP_WINDOW_SECONDS})
EndpointRows(path, ip, window_seconds, t) == SumCounts(user_activity, {r \in BagToSet(user_activity) : r.path = path /\ r.client_ip = ip /\ r.minute >= t - window_seconds})

\* a request that went through the tiers of the registered middleware
TierRequest == last'.op = "dispatch" /\ last'.path \notin ExemptPaths /\ ~last'.fault_hit

ServiceCachesNoAllow ==
    \A k \in {IpKey(ip) : ip \in IPs} \cup {UserKey(u, LimitedPath) : u \in Users} :
        (RATE_LIMIT_REDIS_PREFIX \o "check:" \o k) \notin DOMAIN redis

\* ------------------------------------------------------------------ C33
\* the rows of a key whose window_start lies in the window that begins at s
RowsIn(key, s, window_seconds) == SumCounts(rate_limits, {r \in BagToSet(rate_limits) : r.key = key /\ r.window_start >= s /\ r.window_start <= s + window_seconds})

\* the largest number of calls that have been in flight at the same time
Peak == CHOOSE k \in 0..MaxUpdates : (\A slot \in 1..MaxUpdates : updates[slot].pc # "idle" => updates[slot].overlap <= k) /\ (k = 0 \/ \E slot \in 1..MaxUpdates : updates[slot].pc # "idle" /\ updates[slot].overlap = k)

\* C33: with never more than k checks of a key in flight at the same time,
\* no window of the key holds more than max_requests + k - 1 rows; with one
\* check at a time (k = 1) no window holds more than max_requests.
C33_BoundedOvershoot ==
    /\ Peak = 0 => rate_limits = EmptyBag
    /\ Peak >= 1 =>
           \A ip \in IPs, s \in 0..now :
               RowsIn(IpKey(ip), s, RATE_LIMIT_IP_WINDOW_SECONDS)
                   <= RATE_LIMIT_IP_MAX_REQUESTS + Peak - 1

\* C33 witness: two checks were in flight together and a window holds one
\* row more than the limit
C33_Witness ==
    /\ Peak = 2
    /\ \E ip \in IPs, s \in 0..now :
           RowsIn(IpKey(ip), s, RATE_LIMIT_IP_WINDOW_SECONDS) = RATE_LIMIT_IP_MAX_REQUESTS + 1

\* with one check at a time the limit itself is reached and never passed
SequentialKeepsLimit ==
    Peak = 1 => \A ip \in IPs, s \in 0..now :
                    RowsIn(IpKey(ip), s, RATE_LIMIT_IP_WINDOW_SECONDS) <= RATE_LIMIT_IP_MAX_REQUESTS

\* ------------------------------------------------------------------ C34
\* the records of a user, and those of everybody else
RecordsOf(url, user_id) == {r \in url : r.user_id = user_id}
RecordsOfOthers(url, user_id) == {r \in url : r.user_id # user_id}

\* the times a block written now may still be asked about
AskTimes == now..(MaxTime + IP_BLOCK_MINUTES)

\* C34: once set_user_rate_limited(u, reason, d) has completed,
\* is_user_rate_limited(u) answers (True, reason) at every time before
\* now + d and (False, None) from then on; once remove_user_rate_limit(u)
\* has completed it answers (False, None) at once; u has a single record,
\* which a second set overwrites; the records of other users are untouched
\* by both; and every read answers what the record of its user says.
C34_BlockRoundTrip ==
    [][ /\ last'.op = "set_user_rate_limited" =>
               /\ \A t \in AskTimes :
                      is_user_rate_limited(user_rate_limits', last'.user, t, FALSE) =
                          IF t < now + last'.duration_minutes
                          THEN [is_limited |-> TRUE, reason |-> last'.detail]
                          ELSE NotLimited
               /\ Cardinality(RecordsOf(user_rate_limits', last'.user)) = 1
               /\ RecordsOfOthers(user_rate_limits', last'.user) = RecordsOfOthers(user_rate_limits, last'.user)
        /\ last'.op = "remove_user_rate_limit" =>
               /\ \A t \in AskTimes :
                      is_user_rate_limited(user_rate_limits', last'.user, t, FALSE) = NotLimited
               /\ Cardinality(RecordsOf(user_rate_limits', last'.user)) = 1
               /\ RecordsOfOthers(user_rate_limits', last'.user) = RecordsOfOthers(user_rate_limits, last'.user)
        /\ (last'.op = "is_user_rate_limited" /\ ~last'.fault_hit) =>
               /\ UNCHANGED user_rate_limits
               /\ IF \E r \in user_rate_limits : r.user_id = last'.user /\ r.is_limited /\ now < r.limited_until
                  THEN /\ last'.outcome = "limited"
                       /\ \A r \in RecordsOf(user_rate_limits, last'.user) : last'.detail = r.reason
                  ELSE last'.outcome = "not_limited" /\ last'.detail = NotLimited.reason ]_vars

\* C34 witness: a read answers (False, None) for a user whose block has run
\* out and is still stored, while another identity is blocked
C34_Witness ==
    /\ last.op = "is_user_rate_limited" /\ ~last.fault_hit /\ last.outcome = "not_limited"
    /\ \E r \in user_rate_limits : r.user_id = last.user /\ r.is_limited /\ r.limited_until = now
    /\ \E r \in user_rate_limits : r.user_id # last.user /\ r.is_limited /\ r.limited_until > now

\* ------------------------------------------------------------------ C35
\* C35: the block scheduled on an IP-window denial is keyed by the user id
\* of an authenticated request and by "ip:<client_ip>" of an anonymous one;
\* a request is denied by a stored block only if it is authenticated and the
\* block in force is keyed by its own user id, so a block keyed "ip:..." never
\* denies anybody; and an authenticated user whose block is in force is
\* denied by it from whatever address the request comes.
C35_BlockIdentity ==
    [][(last'.op = "dispatch" /\ last'.path \notin ExemptPaths) =>
          /\ \A task \in BagToSet(Scheduled) :
                 last'.denied_by = "ip" =>
                     task.user_id = IF last'.user # NoUser THEN last'.user ELSE IpKey(last'.ip)
          /\ last'.denied_by = "persistent" => (last'.user # NoUser /\ BlockInForce(last'.user, now))
          /\ last'.user = NoUser => last'.denied_by # "persistent"
          /\ (last'.user # NoUser /\ BlockInForce(last'.user, now)) =>
                 /\ last'.denied_by = "persistent" /\ last'.status = 429
                 /\ last'.ip \in ClientIps]_vars

\* C35 witness: an anonymous request is forwarded although a block keyed by
\* its own "ip:<client_ip>" is in force
C35_Witness ==
    /\ last.op = "dispatch" /\ last.user = NoUser /\ last.outcome = "forwarded"
    /\ last.path \notin ExemptPaths
    /\ BlockInForce(IpKey(last.ip), now)

\* the other half: a user blocked on the rows of one address is denied by the
\* stored block on a request from another address
BlockedFromAnotherAddress ==
    /\ last.op = "dispatch" /\ last.user # NoUser /\ last.denied_by = "persistent"
    /\ \E r \in user_rate_limits : r.user_id = last.user /\ r.reason = "IP-based rate limit exceeded"
    /\ \A row \in BagToSet(user_activity) : row.client_ip # last.ip

\* ------------------------------------------------------------------ C36
\* the address has a stored blacklist document
Blocked(ip) == \E b \in user_ip_blacklist : b.ip = ip

\* a cached positive answer for the address that Redis still holds
CachedPositive(ip) ==
    \E k \in {RATE_LIMIT_REDIS_PREFIX \o "blacklist:ip:" \o ip, RATE_LIMIT_REDIS_PREFIX \o "violation:ip:" \o ip} :
        k \in DOMAIN redis /\ redis[k].expire > now

\* C36 (as the code has it): check_ip_blacklisted reports an address exactly
\* while its document is stored, so an unblock takes effect for it at once.
\* is_ip_blacklisted reports it while the document is stored or a positive
\* answer it cached is still held; such an answer is kept for
\* IP_BLACKLIST_TTL from the fetch that wrote it and is not renewed when it
\* is read, so after an unblock the address is reported for at most
\* IP_BLACKLIST_TTL more and not at all afterwards, until it is blocked again.
C36_UnblockWithinTtl ==
    [][ /\ last'.op = "check_ip_blacklisted" =>
               (last'.outcome = "blacklisted" <=> Blocked(last'.ip))
        /\ last'.op = "is_ip_blacklisted" =>
               /\ last'.outcome = "blacklisted" <=> (Blocked(last'.ip) \/ CachedPositive(last'.ip))
               /\ CachedPositive(last'.ip) => (last'.detail = "cached" /\ redis' = redis)
        /\ \A k \in DOMAIN redis' : redis'[k].expire <= now + IP_BLACKLIST_TTL ]_vars

\* C36 witness: an address without a stored document is reported as
\* blacklisted from the cache
C36_Witness ==
    /\ last.op = "is_ip_blacklisted" /\ last.outcome = "blacklisted" /\ last.detail = "cached"
    /\ last.at = now /\ ~Blocked(last.ip)

\* C36 as stated: once the address is unblocked, and until it is blocked
\* again, no blacklist check reports it.
C36_AsStated ==
    (BlacklistCheck /\ last.at = now /\ ~Blocked(last.ip)) => last.outcome = "not_blacklisted"

\* the unblocked address is reported no more once the cached answer is gone
UnblockedAfterTtl ==
    (last.op = "is_ip_blacklisted" /\ last.at = now /\ ~Blocked(last.ip) /\ ~CachedPositive(last.ip)) =>
        last.outcome = "not_blacklisted"

\* ------------------------------------------------------------------ C37
\* the decision key of the last call, and what it held when the call read it
DecisionKey == RATE_LIMIT_REDIS_PREFIX \o "check:" \o last'.path
Held == DecisionKey \in DOMAIN redis /\ redis[DecisionKey].expire > now
ActiveDeny == Held /\ redis[DecisionKey].value.prefix = "D" /\ redis[DecisionKey].value.parses /\ redis[DecisionKey].value.block_until > now
HeldAllow == Held /\ redis[DecisionKey].value = Allowed

\* C37: check_limit answers False only on a cached D entry whose block_until
\* is still ahead; with no usable cached decision (none, a D entry whose time
\* has passed or does not parse) it recomputes, and as the check cannot be
\* carried out, with or without record_type and record_data, it answers True
\* and writes nothing; a cached A answers True.
C37_NoUnfoundedDenial ==
    [][(last'.op = "check_limit" /\ last'.outcome # "raise") =>
          /\ last'.outcome = "deny" <=> ActiveDeny
          /\ ActiveDeny => redis' = redis
          /\ (~ActiveDeny /\ ~HeldAllow) => (last'.outcome = "allow" /\ redis' = redis)
          /\ HeldAllow =>
                 /\ last'.outcome = "allow"
                 /\ \/ redis' = redis
                    \/ redis' = Put(redis, DecisionKey, [value |-> Allowed, expire |-> now + RATE_LIMIT_DECISION_TTL])]_vars

\* C37 witness: a call with record_type and record_data finds a D entry whose
\* block_until has passed, answers True and leaves the entry as it is
C37_Witness ==
    LET k == RATE_LIMIT_REDIS_PREFIX \o "check:" \o last.path
    IN  /\ last.op = "check_limit" /\ last.outcome = "allow" /\ last.detail # ""
        /\ last.at = now /\ k \in DOMAIN redis
        /\ redis[k].value.prefix = "D" /\ redis[k].value.parses
        /\ redis[k].value.block_until <= now /\ redis[k].expire > now

\* ------------------------------------------------------------------ C38
\* the configuration the database gives for a path at this moment
CurrentConfig(path) == get_rate_limit_config(rate_limit_configs, path, FALSE)

\* an anonymous request that passes the IP tier on a cached ALLOW and so
\* comes to the endpoint tier
ReachesEndpointTier ==
    /\ last'.op = "dispatch" /\ last'.user = NoUser /\ last'.path \notin ExemptPaths
    /\ IpKey(last'.ip) \in DOMAIN RATE_LIMIT_CACHE
    /\ RATE_LIMIT_CACHE[IpKey(last'.ip)].expire > now
    /\ RATE_LIMIT_CACHE[IpKey(last'.ip)].is_allowed

ConfigCached(path) == path \in DOMAIN ENDPOINT_CONFIG_CACHE /\ ENDPOINT_CONFIG_CACHE[path].expire > now

\* C38: a request applies the cached configuration of its path, a cached
\* 'no configuration' included, exactly while the entry's expiry is ahead,
\* and otherwise fetches the configuration and caches it for
\* ENDPOINT_CACHE_TTL; a path whose entry says 'no configuration' gets no
\* endpoint check; and every request made ENDPOINT_CACHE_TTL or more after
\* the last change applies the configuration the database holds.
C38_ConfigWithinTtl ==
    [][ReachesEndpointTier =>
          /\ ConfigCached(last'.path) =>
                 ENDPOINT_CONFIG_CACHE'[last'.path] = ENDPOINT_CONFIG_CACHE[last'.path]
          /\ ~ConfigCached(last'.path) =>
                 ENDPOINT_CONFIG_CACHE'[last'.path] =
                     [config |-> CurrentConfig(last'.path), expire |-> now + ENDPOINT_CACHE_TTL]
          /\ (\E i \in DOMAIN last'.checks : last'.checks[i] = "endpoint")
                 <=> ENDPOINT_CONFIG_CACHE'[last'.path].config # {}
          /\ now >= ChangeHorizon + ENDPOINT_CACHE_TTL =>
                 ENDPOINT_CONFIG_CACHE'[last'.path].config = CurrentConfig(last'.path)]_vars

\* C38 witness: a request is forwarded without an endpoint check on a cached
\* 'no configuration' although the database holds a configuration of its
\* path by now
C38_Witness ==
    /\ last.op = "dispatch" /\ last.outcome = "forwarded" /\ last.at = now
    /\ \A i \in DOMAIN last.checks : last.checks[i] # "endpoint"
    /\ last.path \in DOMAIN ENDPOINT_CONFIG_CACHE
    /\ ENDPOINT_CONFIG_CACHE[last.path].config = {}
    /\ ENDPOINT_CONFIG_CACHE[last.path].expire > now
    /\ CurrentConfig(last.path) # {}

\* the change has reached the engine: once ENDPOINT_CACHE_TTL has passed
\* since the last change, a request is checked against the configuration
\* created for its path
ChangeApplied ==
    /\ last.op = "dispatch" /\ last.at = now /\ now >= ChangeHorizon + ENDPOINT_CACHE_TTL
    /\ \E i \in DOMAIN last.checks : last.checks[i] = "endpoint"
    /\ \E c \in ENDPOINT_CONFIG_CACHE[last.path].config : c.endpoint = last.path

\* ------------------------------------------------------------------ C39
\* the override in force for the pair when the status is asked, if any
OverrideInForce(user_id, path) ==
    {o \in _get_user_override(rate_limit_overrides, user_id, path) :
         o.expires_at = NoTime \/ o.expires_at >= now}

\* the limits the status is computed against
EffectiveLimits(user_id, path) ==
    IF OverrideInForce(user_id, path) = {}
    THEN [max_requests |-> RATE_LIMIT_USER_MAX_REQUESTS,
          window_seconds |-> RATE_LIMIT_USER_WINDOW_SECONDS]
    ELSE LET o == CHOOSE o \in OverrideInForce(user_id, path) : TRUE
         IN  [max_requests |-> o.max_requests, window_seconds |-> o.window_seconds]

StatusAsked == last'.op = "get_user_limit_status"

\* C39: get_user_limit_status always answers a status.  When the stores
\* answer, total_allowed is the limit in force (an unexpired override's,
\* else the one passed in) and remaining = max(0, total_allowed - count);
\* when the override lookup fails, remaining = total_allowed = the limit
\* passed in; when the counter query fails, remaining = total_allowed = the
\* limit in force, which is the override's when one applies; and
\* 0 <= remaining <= total_allowed whenever total_allowed is not negative.
C39_StatusBounds ==
    [][StatusAsked =>
         LET eff == EffectiveLimits(last'.user, last'.path)
             count == WindowCount(rate_limits, UserKey(last'.user, last'.path),
                                  now - eff.window_seconds)
         IN  /\ last'.outcome = "status"
             /\ (last'.fault_hit /\ last'.fault.op = "db") =>
                    /\ last'.max_requests = RATE_LIMIT_USER_MAX_REQUESTS
                    /\ last'.window_seconds = RATE_LIMIT_USER_WINDOW_SECONDS
                    /\ last'.remaining = last'.max_requests
             /\ (last'.fault_hit /\ last'.fault.op = "query") =>
                    /\ last'.max_requests = eff.max_requests
                    /\ last'.window_seconds = eff.window_seconds
                    /\ last'.remaining = last'.max_requests
             /\ ~last'.fault_hit =>
                    /\ last'.max_requests = eff.max_requests
                    /\ last'.window_seconds = eff.window_seconds
                    /\ last'.remaining = (IF eff.max_requests - count > 0
                                          THEN eff.max_requests - count ELSE 0)
             /\ last'.max_requests >= 0 =>
                    (0 <= last'.remaining /\ last'.remaining <= last'.max_requests)]_vars

\* C39 witness: the counter query fails while an override applies, and the
\* status answers the override's limit, not the one passed in, as remaining
C39_Witness ==
    /\ last.op = "get_user_limit_status" /\ last.at = now
    /\ last.fault_hit /\ last.fault.op = "query"
    /\ OverrideInForce(last.user, last.path) # {}
    /\ last.max_requests # RATE_LIMIT_USER_MAX_REQUESTS
    /\ last.max_requests > 0
    /\ last.remaining = last.max_requests

\* C39 as stated: 0 <= remaining <= total_allowed in every status, and a
\* status answered on a failure carries the limits passed in
C39_AsStated ==
    last.op = "get_user_limit_status" =>
        /\ 0 <= last.remaining /\ last.remaining <= last.max_requests
        /\ last.fault_hit =>
               /\ last.max_requests = RATE_LIMIT_USER_MAX_REQUESTS
               /\ last.window_seconds = RATE_LIMIT_USER_WINDOW_SECONDS
               /\ last.remaining = last.max_requests

\* with the stores answering and limits that are not negative the bounds hold
\* as stated, and requests above the limit leave remaining at 0
StatusExhausted ==
    /\ last.op = "get_user_limit_status" /\ ~last.fault_hit /\ last.at = now
    /\ last.max_requests > 0 /\ last.remaining = 0
    /\ WindowCount(rate_limits, UserKey(last.user, last.path), now - last.window_seconds) > last.max_requests

\* an override of a negative limit answers remaining above total_allowed
NegativeLimitStatus ==
    /\ last.op = "get_user_limit_status" /\ ~last.fault_hit
    /\ last.max_requests < 0 /\ last.remaining = 0

====
